---- MODULE Spec2Model ----
(***************************************************************************)
(* The weekly plan / draft / swap state machine of the family-ops backend: *)
(* app/main.py (request handlers and row storage) and                      *)
(* app/services/swap_service.py (PlanBuilder and swap computation).        *)
(*                                                                         *)
(* One week (the current week_start) is modelled.  A day mapping is a      *)
(* function from day keys to slots; the JSON key str(d) is written d.      *)
(***************************************************************************)
EXTENDS Integers, Sequences, FiniteSets, TLC

\* ------------------------------------------------------------------ bounds
\* Recipe ids that can be in the recipes table are 1..NumRecipes.
NumRecipes == 3
\* A swap request carries at most MaxSwapLen day tokens.
MaxSwapLen == 2
\* datetime.utcnow().strftime("%H%M%S") takes the values 0..MaxStamp.
MaxStamp == 0
\* A behaviour handles at most MaxRequests requests.
MaxRequests == 4
\* pick_recipes_for_days is called with count in 0..MaxCount and prefer_max in
\* 0..MaxPreferMax.
MaxCount == 3
MaxPreferMax == 2
\* normalize_ingredient is called with strings of at most MaxNormLen characters.
MaxNormLen == 5
\* A recipe row has at most MaxIngredients ingredient lines.
MaxIngredients == 3
\* Stage A is called with at most MaxStageALines buy lines.
MaxStageALines == 3
\* The assistant answers with at most MaxGroups groups for at most
\* MaxInputLines input lines.
MaxGroups == 2
MaxInputLines == 2
\* A recipe of the consolidated shopping has at most MaxShopLines ingredient lines.
MaxShopLines == 2
\* _expand_compound_lines is called with at most MaxCompoundLines lines.
MaxCompoundLines == 2

\* ------------------------------------------------------- program constants
\* count=7 in _build_new_week_plan; days are range(1, 8).
PlanCount == 7
\* The line cap of the assistant step when OPENAI_SHOP_MAX_LINES is not set.
DefaultMaxLines == 80

WeekDays == 1..PlanCount

DAY_ALIASES ==
    [mo |-> 1, montag |-> 1, di |-> 2, dienstag |-> 2, mi |-> 3, mittwoch |-> 3,
     do |-> 4, donnerstag |-> 4, fr |-> 5, freitag |-> 5, sa |-> 6, samstag |-> 6,
     so |-> 7, sonntag |-> 7]

\* ------------------------------------------------------------ input domains
Recipes == 1..NumRecipes
Stamps == 0..MaxStamp

\* Day numbers a web client sends: below range, two valid days, above range.
WebDayInputs == {0, 3, 5, 8}

\* Chat tokens after split(): digit strings and words.
Num(n) == [isdigit |-> TRUE, n |-> n, w |-> ""]
Word(w) == [isdigit |-> FALSE, n |-> 0, w |-> w]
ChatTokens == {Num(3), Num(8), Word("fr"), Word("xx")}

\* Tags of a recipe row; the preference setting is a list of tags.
RecipeTags(r) == IF r % 2 = 0 THEN {"vegi"} ELSE {}
TagSettings == {<<>>, <<"vegi">>}

Range(s) == {s[i] : i \in DOMAIN s}

SeqsUpTo(S, n) == UNION {[1..k -> S] : k \in 0..n}

\* The rows `select ... where is_active order by random()` can return:
\* any set of recipes in any order.
RecipeTables == {s \in SeqsUpTo(Recipes, NumRecipes) :
                    \A i, j \in DOMAIN s : i # j => s[i] # s[j]}

\* ------------------------------------------------------------------- slots
\* A slot value is a string in the code: a recipe id, "KI: Neues Rezept k",
\* "KI: Neues Rezept k (stamp-d)", or "".
RecipeRef(r) == [kind |-> "id", n |-> r, suffix |-> <<>>]
DummyTitle(k) == [kind |-> "KI", n |-> k, suffix |-> <<>>]
DummyFallback == [kind |-> "KI", n |-> 0, suffix |-> <<>>]
Stamped(base, stamp, d) == [base EXCEPT !.suffix = <<stamp, d>>]
EmptySlot == [kind |-> "", n |-> 0, suffix |-> <<>>]

\* `v and isinstance(v, str) and not v.startswith("KI:")`
IsReal(v) == v.kind = "id"
IsPlaceholder(v) == v.kind = "KI"

RealIds(days) == {days[k].n : k \in {x \in DOMAIN days : IsReal(days[x])}}

\* ------------------------------------------------------------------- state
VARIABLES
    weekly_plans,        \* rows of public.weekly_plans for the week: <<>> or <<days>>
    weekly_plan_drafts,  \* rows of public.weekly_plan_drafts, oldest first
    swap_avoid,          \* app_state value swap_avoid:<week>: sorted list of ids
    last,                \* the last request handled and its reply
    handled,             \* how many requests have been handled
    call,                \* a call of a service function: its arguments and result
    swapping             \* the swap requests being handled at the same time

vars == <<weekly_plans, weekly_plan_drafts, swap_avoid, last, handled, call, swapping>>

\* No service function is being called.
NoCall == [fn |-> "none", args |-> <<>>, done |-> FALSE, out |-> <<>>]

\* A call of fn with args that has not returned yet.
Pending(fn, args) == [fn |-> fn, args |-> args, done |-> FALSE, out |-> <<>>]

\* The pending call returns out.
Returns(out) ==
    /\ ~call.done
    /\ call' = [call EXCEPT !.done = TRUE, !.out = out]
    /\ UNCHANGED <<weekly_plans, weekly_plan_drafts, swap_avoid, last, handled, swapping>>

Returned(fn) == call.fn = fn /\ call.done

\* ------------------------------------------------- swap_service.PlanBuilder
Min(a, b) == IF a < b THEN a ELSE b

\* The second loop of pick_recipes_for_days: walk `available` from index i,
\* stop once len(picked) >= count, skip ids already picked.
RECURSIVE FillFromAvailable(_, _, _, _)
FillFromAvailable(available, i, picked, count) ==
    IF i > Len(available) \/ Len(picked) >= count THEN picked
    ELSE IF available[i] \in Range(picked)
         THEN FillFromAvailable(available, i + 1, picked, count)
         ELSE FillFromAvailable(available, i + 1, Append(picked, available[i]), count)

\* The while loop that pads with "KI: Neues Rezept {len(dummy)+1}".
RECURSIVE PadDummy(_, _, _)
PadDummy(npicked, dummy, count) ==
    IF npicked + Len(dummy) < count
    THEN PadDummy(npicked, Append(dummy, DummyTitle(Len(dummy) + 1)), count)
    ELSE dummy

\* Variant: the first loop left out (no preference filling).
PreferredPicks_None(preferred, prefer_set, prefer_max) == <<>>

\* The first loop: up to prefer_max ids from `preferred` (count is not consulted).
PreferredPicks(preferred, prefer_set, prefer_max) ==
    IF prefer_set # {} /\ prefer_max > 0
    THEN SubSeq(preferred, 1, Min(prefer_max, Len(preferred)))
    ELSE <<>>

\* Variant: the `available` filter of line 36 left out (existing_ids ignored).
pick_recipes_ignoring_existing(all_recipes, existing_ids, count, prefer_tags, prefer_max) ==
    LET prefer_set == {t \in Range(prefer_tags) : t # ""}
        Pref(r) == RecipeTags(r) \cap prefer_set # {}
        preferred == IF prefer_set # {} THEN SelectSeq(all_recipes, Pref) ELSE <<>>
        first == PreferredPicks(preferred, prefer_set, prefer_max)
        picked == FillFromAvailable(all_recipes, 1, first, count)
    IN  [picked |-> picked, dummy |-> PadDummy(Len(picked), <<>>, count)]

pick_recipes_for_days(all_recipes, existing_ids, count, prefer_tags, prefer_max) ==
    LET Avail(r) == r \notin existing_ids
        available == SelectSeq(all_recipes, Avail)
        prefer_set == {t \in Range(prefer_tags) : t # ""}
        Pref(r) == RecipeTags(r) \cap prefer_set # {}
        preferred == IF prefer_set # {} THEN SelectSeq(available, Pref) ELSE <<>>
        first == PreferredPicks(preferred, prefer_set, prefer_max)
        picked == FillFromAvailable(available, 1, first, count)
    IN  [picked |-> picked, dummy |-> PadDummy(Len(picked), <<>>, count)]

\* _build_new_week_plan: 7 picks over an empty exclusion list, then the
\* distribution loop over range(1, 8).
PreferMax(tags) == IF tags # <<>> THEN (PlanCount * 5) \div 10 ELSE 0

RECURSIVE DistributePlan(_, _, _, _, _)
DistributePlan(days, d, pi, di, res) ==
    IF d > PlanCount THEN days
    ELSE IF pi < Len(res.picked)
         THEN DistributePlan(days @@ (d :> RecipeRef(res.picked[pi + 1])), d + 1, pi + 1, di, res)
         ELSE DistributePlan(days @@ (d :> res.dummy[di + 1]), d + 1, pi, di + 1, res)

build_new_week_plan(all_recipes, tags) ==
    DistributePlan(<<>>, 1, 0, 0,
                   pick_recipes_for_days(all_recipes, {}, PlanCount, tags, PreferMax(tags)))

\* ------------------------------------------------------ swap_service swaps
\* Variant: the ids swapped out now, the ids avoided so far forgotten.
update_avoid_list_for_reroll_Forgetful(current_days, swap_days, avoid_ids) ==
    {current_days[d].n : d \in {x \in Range(swap_days) :
                                   x \in DOMAIN current_days /\ IsReal(current_days[x])}}

update_avoid_list_for_reroll(current_days, swap_days, avoid_ids) ==
    avoid_ids \cup
        {current_days[d].n : d \in {x \in Range(swap_days) :
                                       x \in DOMAIN current_days /\ IsReal(current_days[x])}}

\* Variant: banned_ids built from the avoid ids alone.
BannedIds_AvoidOnly(base_days, avoid_ids) == avoid_ids

\* banned_ids of apply_swaps: every real id in the base, plus the avoid ids.
BannedIds(base_days, avoid_ids) == RealIds(base_days) \cup avoid_ids

\* Step 2 of apply_swaps: current[str(d)] = "" for every swap day.
ClearSwapDays(base_days, swap_days) ==
    [k \in DOMAIN base_days \cup Range(swap_days) |->
        IF k \in Range(swap_days) THEN EmptySlot ELSE base_days[k]]

\* Step 4 of apply_swaps: the loop over swap_days with cursors pi and di.
RECURSIVE DistributeSwaps(_, _, _, _, _, _, _)
DistributeSwaps(current, swap_days, i, pi, di, res, stamp) ==
    IF i > Len(swap_days) THEN current
    ELSE LET d == swap_days[i] IN
         IF pi < Len(res.picked)
         THEN DistributeSwaps([current EXCEPT ![d] = RecipeRef(res.picked[pi + 1])],
                              swap_days, i + 1, pi + 1, di, res, stamp)
         ELSE LET base == IF di < Len(res.dummy) THEN res.dummy[di + 1] ELSE DummyFallback
              IN  DistributeSwaps([current EXCEPT ![d] = Stamped(base, stamp, d)],
                                  swap_days, i + 1, pi, di + 1, res, stamp)

apply_swaps(all_recipes, stamp, base_days, swap_days, avoid_ids) ==
    LET banned_ids == BannedIds(base_days, avoid_ids)
        cleared == ClearSwapDays(base_days, swap_days)
        res == pick_recipes_for_days(all_recipes, banned_ids, Len(swap_days), <<>>, 0)
    IN  DistributeSwaps(cleared, swap_days, 1, 0, 0, res, stamp)

\* ------------------------------------------------------------ list helpers
\* sorted(xs) on a list of integers (insertion sort).
RECURSIVE InsertSorted(_, _)
InsertSorted(s, x) ==
    IF s = <<>> THEN <<x>>
    ELSE IF x <= Head(s) THEN <<x>> \o s
         ELSE <<Head(s)>> \o InsertSorted(Tail(s), x)

RECURSIVE Sorted(_)
Sorted(s) == IF s = <<>> THEN <<>> ELSE InsertSorted(Sorted(Tail(s)), Head(s))

\* sorted(S) on a set of integers.
RECURSIVE SortedSet(_)
SortedSet(S) ==
    IF S = {} THEN <<>>
    ELSE LET m == CHOOSE x \in S : \A y \in S : x <= y
         IN  <<m>> \o SortedSet(S \ {m})

\* ------------------------------------------------------------- row storage
\* _db_get_weekly_plan: the row or None.
HasPlan == weekly_plans # <<>>
PlanDays == weekly_plans[1]

\* _db_upsert_weekly_plan: insert ... on conflict (week_start_date) do update.
db_upsert_weekly_plan(days) == <<days>>

\* _db_get_draft: order by created_at desc limit 1.
HasDraft == weekly_plan_drafts # <<>>
NewestDraft == weekly_plan_drafts[Len(weekly_plan_drafts)]

\* _db_create_draft: delete every draft row of the week, insert the new one.
db_create_draft(proposed_days, swaps) ==
    <<[proposed_days |-> proposed_days, requested_swaps |-> swaps]>>

\* Variant: a delete that removes no row.
db_delete_draft_NoRow == weekly_plan_drafts

\* _db_delete_draft
db_delete_draft == <<>>

\* Variant: a clear that leaves the stored list as it is.
clear_swap_avoid_list_Kept == swap_avoid

\* _get_swap_avoid_list / _set_swap_avoid_list / _clear_swap_avoid_list.
\* A missing key reads as the default [], like the stored value "[]".
get_swap_avoid_list == swap_avoid
set_swap_avoid_list(avoid_list) == SortedSet({rid \in Range(avoid_list) : rid # 0})
clear_swap_avoid_list == <<>>

\* ---------------------------------------------------------------- responses
\* The state of the week as api_weekly_current reports it (has_plan, has_draft).
WeekState ==
    IF HasPlan THEN (IF HasDraft THEN "PlanWithDraft" ELSE "PlanOnly")
    ELSE (IF HasDraft THEN "DraftOnly" ELSE "NoPlan")

\* The request: op, via (web endpoint or chat command) and input (the days of
\* the web payload, or the chat command's tokens).  The reply: status (HTTP
\* status), ok (the "ok" field of the result dict; the webhook's own body is
\* {"ok": True}), msg (the body's message, or the text sent to the chat),
\* has_draft (the body's has_draft) and branch (the base _run_swap_preview
\* swapped on).  from and avoided record the week as the request found it.
Response(op, via, input, status, ok, msg) ==
    [op |-> op, via |-> via, input |-> input, status |-> status, ok |-> ok,
     msg |-> msg, has_draft |-> FALSE, branch |-> "",
     from |-> WeekState, avoided |-> swap_avoid # <<>>]

NoRequest ==
    [op |-> "none", via |-> "", input |-> <<>>, status |-> 0, ok |-> TRUE,
     msg |-> "", has_draft |-> FALSE, branch |-> "", from |-> "NoPlan",
     avoided |-> FALSE]

Init ==
    /\ weekly_plans = <<>>
    /\ weekly_plan_drafts = <<>>
    /\ swap_avoid = <<>>
    /\ last = NoRequest
    /\ handled = 0
    /\ call = NoCall
    /\ swapping = <<>>

\* One more request is handled.
Accept ==
    /\ handled < MaxRequests
    /\ handled' = handled + 1
    /\ UNCHANGED <<call, swapping>>

\* -------------------------------------------------------------------- plan
\* api_weekly_plan: build, upsert, then read plan and draft back for the reply.
ApiWeeklyPlan ==
    /\ Accept
    /\ \E all_recipes \in RecipeTables, tags \in TagSettings :
        /\ weekly_plans' = db_upsert_weekly_plan(build_new_week_plan(all_recipes, tags))
        /\ UNCHANGED <<weekly_plan_drafts, swap_avoid>>
        /\ last' = [Response("plan", "web", <<>>, 200, TRUE, "plan") EXCEPT
                        !.has_draft = HasDraft]

\* telegram_webhook, command "plan".
TelegramPlan ==
    /\ Accept
    /\ \E all_recipes \in RecipeTables, tags \in TagSettings :
        /\ weekly_plans' = db_upsert_weekly_plan(build_new_week_plan(all_recipes, tags))
        /\ UNCHANGED <<weekly_plan_drafts, swap_avoid>>
        /\ last' = Response("plan", "chat", <<>>, 200, TRUE, "plan")

\* -------------------------------------------------------------------- swap
\* The avoid ids _run_swap_preview works with, and the base it swaps on.
UsesDraft == HasDraft /\ DOMAIN NewestDraft.proposed_days # {}

\* Variant: every swap computed on the plan, the draft ignored.
SwapBaseDays_PlanOnly == PlanDays

SwapBaseDays == IF UsesDraft THEN NewestDraft.proposed_days ELSE PlanDays

SwapAvoidIds(swap_days) ==
    IF UsesDraft
    THEN update_avoid_list_for_reroll(NewestDraft.proposed_days, swap_days,
                                      Range(get_swap_avoid_list))
    ELSE {}

\* Variant: the `if not base` return left out, a missing plan read as {}.
run_swap_preview_unguarded(via, input, swap_days, all_recipes, stamp) ==
    LET avoid_ids == SwapAvoidIds(swap_days)
        base_days == IF UsesDraft THEN NewestDraft.proposed_days
                     ELSE IF HasPlan THEN PlanDays ELSE <<>>
        proposed == apply_swaps(all_recipes, stamp, base_days, swap_days, avoid_ids)
    IN  /\ swap_avoid' = IF UsesDraft
                         THEN set_swap_avoid_list(SortedSet(avoid_ids))
                         ELSE clear_swap_avoid_list
        /\ weekly_plan_drafts' = db_create_draft(proposed, swap_days)
        /\ UNCHANGED weekly_plans
        /\ last' = [Response("swap", via, input, 200, TRUE, "preview") EXCEPT
                       !.branch = IF UsesDraft THEN "draft" ELSE "plan"]

run_swap_preview(via, input, swap_days, all_recipes, stamp) ==
    IF ~HasPlan
    THEN /\ last' = Response("swap", via, input, 200, FALSE, "no_plan")
         /\ UNCHANGED <<weekly_plans, weekly_plan_drafts, swap_avoid>>
    ELSE LET avoid_ids == SwapAvoidIds(swap_days)
             proposed == apply_swaps(all_recipes, stamp, SwapBaseDays, swap_days, avoid_ids)
         IN  /\ swap_avoid' = IF UsesDraft
                              THEN set_swap_avoid_list(SortedSet(avoid_ids))
                              ELSE clear_swap_avoid_list
             /\ weekly_plan_drafts' = db_create_draft(proposed, swap_days)
             /\ UNCHANGED weekly_plans
             /\ last' = [Response("swap", via, input, 200, TRUE, "preview") EXCEPT
                            !.branch = IF UsesDraft THEN "draft" ELSE "plan"]

\* Variant: the `days must be unique` check left out.
WebSwapError_NoUnique(days) ==
    IF days = <<>> THEN "days must be non-empty"
    ELSE IF \E i \in DOMAIN days : days[i] < 1 \/ days[i] > 7 THEN "days must be 1..7"
    ELSE ""

\* api_weekly_swap: the three 400 checks, then sorted(days).
WebSwapError(days) ==
    IF days = <<>> THEN "days must be non-empty"
    ELSE IF \E i \in DOMAIN days : days[i] < 1 \/ days[i] > 7 THEN "days must be 1..7"
    ELSE IF Cardinality(Range(days)) # Len(days) THEN "days must be unique"
    ELSE ""

ApiWeeklySwap ==
    /\ Accept
    /\ \E days \in SeqsUpTo(WebDayInputs, MaxSwapLen) :
        IF WebSwapError(days) # ""
        THEN /\ last' = Response("swap", "web", days, 400, FALSE, WebSwapError(days))
             /\ UNCHANGED <<weekly_plans, weekly_plan_drafts, swap_avoid>>
        ELSE \E all_recipes \in RecipeTables, stamp \in Stamps :
                run_swap_preview("web", days, Sorted(days), all_recipes, stamp)

\* _parse_swap_days: the loop over the tokens; the first bad token raises.
RECURSIVE ParseTokens(_, _, _)
ParseTokens(parts, i, days) ==
    IF i > Len(parts) THEN [err |-> "", days |-> days]
    ELSE LET p == parts[i] IN
         IF p.isdigit
         THEN IF p.n < 1 \/ p.n > 7
              THEN [err |-> "day numbers must be 1..7", days |-> <<>>]
              ELSE ParseTokens(parts, i + 1, Append(days, p.n))
         ELSE IF p.w \notin DOMAIN DAY_ALIASES
              THEN [err |-> "unknown day", days |-> <<>>]
              ELSE ParseTokens(parts, i + 1, Append(days, DAY_ALIASES[p.w]))

parse_swap_days(parts) ==
    IF parts = <<>> THEN [err |-> "swap needs days", days |-> <<>>]
    ELSE LET r == ParseTokens(parts, 1, <<>>)
         IN  IF r.err # "" THEN r ELSE [err |-> "", days |-> SortedSet(Range(r.days))]

\* telegram_webhook, command "swap ...": a ValueError becomes a chat message.
TelegramSwap ==
    /\ Accept
    /\ \E parts \in SeqsUpTo(ChatTokens, MaxSwapLen) :
        LET parsed == parse_swap_days(parts) IN
        IF parsed.err # ""
        THEN /\ last' = Response("swap", "chat", parts, 200, TRUE, parsed.err)
             /\ UNCHANGED <<weekly_plans, weekly_plan_drafts, swap_avoid>>
        ELSE \E all_recipes \in RecipeTables, stamp \in Stamps :
                run_swap_preview("chat", parts, parsed.days, all_recipes, stamp)

\* ----------------------------------------------------------------- confirm
\* The web body carries ok: False when there is no draft; the webhook's own
\* body is {"ok": True} whatever it sends to the chat.
confirm_draft(via) ==
    IF ~HasDraft
    THEN /\ last' = Response("confirm", via, <<>>, 200, via = "chat", "no_draft")
         /\ UNCHANGED <<weekly_plans, weekly_plan_drafts, swap_avoid>>
    ELSE /\ weekly_plans' = db_upsert_weekly_plan(NewestDraft.proposed_days)
         /\ weekly_plan_drafts' = db_delete_draft
         /\ swap_avoid' = clear_swap_avoid_list
         /\ last' = Response("confirm", via, <<>>, 200, TRUE, "confirmed")

ApiWeeklyConfirm == Accept /\ confirm_draft("web")

TelegramConfirm == Accept /\ confirm_draft("chat")

\* ------------------------------------------------------------------ cancel
\* Variant: the draft deleted, the avoid list left as it is.
cancel_draft_AvoidKept(via) ==
    /\ weekly_plan_drafts' = db_delete_draft
    /\ UNCHANGED <<weekly_plans, swap_avoid>>
    /\ last' = Response("cancel", via, <<>>, 200, TRUE, "discarded")

cancel_draft(via) ==
    /\ weekly_plan_drafts' = db_delete_draft
    /\ swap_avoid' = clear_swap_avoid_list
    /\ UNCHANGED weekly_plans
    /\ last' = Response("cancel", via, <<>>, 200, TRUE, "discarded")

ApiWeeklyCancel == Accept /\ cancel_draft("web")

TelegramCancel == Accept /\ cancel_draft("chat")

Next ==
    \/ ApiWeeklyPlan
    \/ TelegramPlan
    \/ ApiWeeklySwap
    \/ TelegramSwap
    \/ ApiWeeklyConfirm
    \/ TelegramConfirm
    \/ ApiWeeklyCancel
    \/ TelegramCancel

Spec == Init /\ [][Next]_vars

\* ------------------------------------------- calls of pick_recipes_for_days
\* The store of a specification that only calls a service function.
IdleStore ==
    /\ weekly_plans = <<>>
    /\ weekly_plan_drafts = <<>>
    /\ swap_avoid = <<>>
    /\ last = NoRequest
    /\ handled = 0
    /\ swapping = <<>>

PickCalls ==
    {Pending("pick_recipes_for_days",
             [all_recipes |-> t, existing_ids |-> e, count |-> c,
              prefer_tags |-> g, prefer_max |-> m]) :
        t \in RecipeTables, e \in SUBSET Recipes, c \in 0..MaxCount,
        g \in TagSettings, m \in 0..MaxPreferMax}

PickInit == IdleStore /\ call \in PickCalls

CallPickRecipesForDays ==
    /\ call.fn = "pick_recipes_for_days"
    /\ Returns(pick_recipes_for_days(call.args.all_recipes, call.args.existing_ids,
                                     call.args.count, call.args.prefer_tags,
                                     call.args.prefer_max))

PickNext == CallPickRecipesForDays

PickSpec == PickInit /\ [][PickNext]_vars

\* ------------------------------------------------------------------ strings
\* A Python str is a sequence of one-character strings.
UpperChars ==
    <<"A", "B", "C", "D", "E", "F", "G", "H", "I", "J", "K", "L", "M", "N", "O",
      "P", "Q", "R", "S", "T", "U", "V", "W", "X", "Y", "Z", "Ä", "Ö", "Ü">>
LowerChars ==
    <<"a", "b", "c", "d", "e", "f", "g", "h", "i", "j", "k", "l", "m", "n", "o",
      "p", "q", "r", "s", "t", "u", "v", "w", "x", "y", "z", "ä", "ö", "ü">>
DigitChars == <<"0", "1", "2", "3", "4", "5", "6", "7", "8", "9">>

IndexOf(seq, c) == CHOOSE i \in DOMAIN seq : seq[i] = c

\* str.lower() and str.upper() on one character.
LowerChar(c) == IF c \in Range(UpperChars) THEN LowerChars[IndexOf(UpperChars, c)] ELSE c
UpperChar(c) == IF c \in Range(LowerChars) THEN UpperChars[IndexOf(LowerChars, c)] ELSE c
Lower(s) == [i \in DOMAIN s |-> LowerChar(s[i])]

\* The characters \s matches and str.strip() removes.
WhiteSpace == {" "}

RECURSIVE LStrip(_, _)
LStrip(s, class) ==
    IF s # <<>> /\ Head(s) \in class THEN LStrip(Tail(s), class) ELSE s

RECURSIVE RStrip(_, _)
RStrip(s, class) ==
    IF s # <<>> /\ s[Len(s)] \in class THEN RStrip(SubSeq(s, 1, Len(s) - 1), class) ELSE s

Strip(s) == RStrip(LStrip(s, WhiteSpace), WhiteSpace)

\* re.sub("[class]+", " ", s): every maximal run of class characters becomes
\* one space.
RECURSIVE SubRuns(_, _, _)
SubRuns(s, i, class) ==
    IF i > Len(s) THEN <<>>
    ELSE IF s[i] \in class
         THEN IF i > 1 /\ s[i - 1] \in class
              THEN SubRuns(s, i + 1, class)
              ELSE <<" ">> \o SubRuns(s, i + 1, class)
         ELSE <<s[i]>> \o SubRuns(s, i + 1, class)

EndsWith(s, suffix) ==
    Len(s) >= Len(suffix) /\ SubSeq(s, Len(s) - Len(suffix) + 1, Len(s)) = suffix

DropLast(s, n) == SubSeq(s, 1, Len(s) - n)

\* ---------------------------------------------- shop_output: normalization
\* PUNCT_RE's character class (its backquote has no TLA+ string and is left
\* out; no string of the model contains one).
PunctChars ==
    {".", ",", ";", ":", "!", "?", "(", ")", "[", "]", "{", "}", "\"", "'",
     "´", "/", "\\", "|"}

normalize_ingredient(value) ==
    IF value = <<>> THEN <<>>
    ELSE LET s1 == Lower(Strip(value))
             s2 == SubRuns(s1, 1, PunctChars)
             s3 == Strip(SubRuns(s2, 1, WhiteSpace))
         IN  IF s3 = <<>> THEN <<>>
             ELSE IF " " \notin Range(s3)
                  THEN IF EndsWith(s3, <<"e", "n">>) /\ Len(s3) > 4 THEN DropLast(s3, 2)
                       ELSE IF EndsWith(s3, <<"e">>) /\ Len(s3) > 3 THEN DropLast(s3, 1)
                       ELSE s3
                  ELSE s3

\* Characters of the strings normalize_ingredient is called with.
NormAlphabet == {"k", "e", "n", "E", " ", "."}

NormalizeCalls ==
    {Pending("normalize_ingredient", v) : v \in SeqsUpTo(NormAlphabet, MaxNormLen)}

NormalizeInit == IdleStore /\ call \in NormalizeCalls

CallNormalizeIngredient ==
    /\ call.fn = "normalize_ingredient"
    /\ Returns(normalize_ingredient(call.args))

NormalizeNext == CallNormalizeIngredient

NormalizeSpec == NormalizeInit /\ [][NormalizeNext]_vars

\* ------------------------------------------------ shop_output: aggregation
\* Unicode code point order of the characters the model's strings use.
CodeOrder ==
    <<" ", "!", "\"", "'", "(", ")", "+", ",", "-", ".", "/",
      "0", "1", "2", "3", "4", "5", "6", "7", "8", "9", ":", ";", "=", "?",
      "A", "B", "C", "D", "E", "F", "G", "H", "I", "J", "K", "L", "M", "N", "O",
      "P", "Q", "R", "S", "T", "U", "V", "W", "X", "Y", "Z", "[", "\\", "]",
      "a", "b", "c", "d", "e", "f", "g", "h", "i", "j", "k", "l", "m", "n", "o",
      "p", "q", "r", "s", "t", "u", "v", "w", "x", "y", "z", "{", "|", "}",
      "´", "Ä", "Ö", "Ü", "ß", "ä", "ö", "ü">>

CharCode(c) == IndexOf(CodeOrder, c)

\* a < b for Python strings.
RECURSIVE StrLess(_, _)
StrLess(a, b) ==
    IF b = <<>> THEN FALSE
    ELSE IF a = <<>> THEN TRUE
    ELSE IF Head(a) = Head(b) THEN StrLess(Tail(a), Tail(b))
    ELSE CharCode(Head(a)) < CharCode(Head(b))

\* sorted(items, key=lambda x: x["name"].lower()): stable.
RECURSIVE InsertByName(_, _)
InsertByName(sorted, x) ==
    IF sorted = <<>> THEN <<x>>
    ELSE IF StrLess(Lower(x.name), Lower(Head(sorted).name))
         THEN <<x>> \o sorted
         ELSE <<Head(sorted)>> \o InsertByName(Tail(sorted), x)

RECURSIVE SortedByName(_, _)
SortedByName(items, i) ==
    IF i = 0 THEN <<>> ELSE InsertByName(SortedByName(items, i - 1), items[i])

clean_display_name(value) == SubRuns(Strip(value), 1, WhiteSpace)

\* A dict is a list of [k, v] pairs in insertion order.
DictKeys(dict) == {dict[i].k : i \in DOMAIN dict}
DictGet(dict, key) == dict[CHOOSE i \in DOMAIN dict : dict[i].k = key].v
\* dict[key] = dict.get(key, 0) + 1
DictCount(dict, key) ==
    IF key \in DictKeys(dict)
    THEN [i \in DOMAIN dict |-> IF dict[i].k = key
                                 THEN [k |-> key, v |-> dict[i].v + 1] ELSE dict[i]]
    ELSE Append(dict, [k |-> key, v |-> 1])
\* if key not in dict: dict[key] = value
DictSetDefault(dict, key, value) ==
    IF key \in DictKeys(dict) THEN dict ELSE Append(dict, [k |-> key, v |-> value])

\* A pantry item of the settings.
PantryItem(name, uncertain, aliases) ==
    [name |-> name, uncertain |-> uncertain, aliases |-> aliases]

RECURSIVE AddCandidates(_, _, _, _)
AddCandidates(alias_map, candidates, i, item) ==
    IF i > Len(candidates) THEN alias_map
    ELSE LET norm == normalize_ingredient(candidates[i])
         IN  IF norm = <<>> THEN AddCandidates(alias_map, candidates, i + 1, item)
             ELSE AddCandidates(
                    DictSetDefault(alias_map, norm,
                                   [name |-> item.name, uncertain |-> item.uncertain]),
                    candidates, i + 1, item)

RECURSIVE build_pantry_alias_map_from(_, _, _)
build_pantry_alias_map_from(items, i, alias_map) ==
    IF i > Len(items) THEN alias_map
    ELSE build_pantry_alias_map_from(
            items, i + 1,
            AddCandidates(alias_map, <<items[i].name>> \o items[i].aliases, 1, items[i]))

build_pantry_alias_map(items) == build_pantry_alias_map_from(items, 1, <<>>)

\* _to_list
to_list(counts, display_map) ==
    LET items == [i \in DOMAIN counts |->
                    [name |-> IF display_map = <<>> THEN counts[i].k
                              ELSE DictGet(display_map, counts[i].k),
                     count |-> counts[i].v]]
    IN  SortedByName(items, Len(items))

\* The ingredient lines the day loop visits, in order: real slots whose recipe
\* row exists.
RECURSIVE PlannedIngredients(_, _, _)
PlannedIngredients(days, recipes, d) ==
    IF d > PlanCount THEN <<>>
    ELSE IF d \in DOMAIN days /\ IsReal(days[d]) /\ days[d].n \in DOMAIN recipes
         THEN recipes[days[d].n] \o PlannedIngredients(days, recipes, d + 1)
         ELSE PlannedIngredients(days, recipes, d + 1)

\* The body of the ingredient loop if it added every line to the buy lines.
ClassifyLine_AllToBuyLines(acc, pantry_map, ing) ==
    LET raw == Strip(ing)
        norm == normalize_ingredient(raw)
        display == clean_display_name(raw)
    IN  IF raw = <<>> \/ norm = <<>> THEN acc
        ELSE IF norm \in DictKeys(pantry_map)
             THEN [acc EXCEPT !.buy_lines = Append(@, display),
                              !.pantry_used_counts =
                                  DictCount(@, DictGet(pantry_map, norm).name)]
             ELSE [acc EXCEPT !.buy_lines = Append(@, display),
                              !.buy_display = DictSetDefault(@, norm, display),
                              !.buy_counts = DictCount(@, norm)]

\* The body of the ingredient loop.
ClassifyLine(acc, pantry_map, ing) ==
    LET raw == Strip(ing)
        norm == normalize_ingredient(raw)
    IN  IF raw = <<>> \/ norm = <<>> THEN acc
        ELSE IF norm \in DictKeys(pantry_map)
             THEN LET pantry_entry == DictGet(pantry_map, norm)
                  IN  IF pantry_entry.uncertain
                      THEN [acc EXCEPT !.pantry_uncertain_counts =
                                          DictCount(@, pantry_entry.name)]
                      ELSE [acc EXCEPT !.pantry_used_counts =
                                          DictCount(@, pantry_entry.name)]
             ELSE LET display == clean_display_name(raw)
                  IN  [acc EXCEPT !.buy_lines = Append(@, display),
                                  !.buy_display = DictSetDefault(@, norm, display),
                                  !.buy_counts = DictCount(@, norm)]

RECURSIVE ClassifyLines(_, _, _, _)
ClassifyLines(acc, pantry_map, ings, i) ==
    IF i > Len(ings) THEN acc
    ELSE ClassifyLines(ClassifyLine(acc, pantry_map, ings[i]), pantry_map, ings, i + 1)

\* A message is a list of lines: a fixed text, or "- name" / "- name  xN".
MsgText(text) == [text |-> text, name |-> <<>>, count |-> 0]
MsgItem(item) == [text |-> "-", name |-> item.name, count |-> item.count]
MsgItems(list) == [i \in DOMAIN list |-> MsgItem(list[i])]

PantryMessage(pantry_used_list, pantry_uncertain_list) ==
    (IF pantry_used_list # <<>>
     THEN <<MsgText(""), MsgText("Pantry verwendet:")>> \o MsgItems(pantry_used_list)
     ELSE <<>>)
    \o (IF pantry_uncertain_list # <<>>
        THEN <<MsgText(""), MsgText("Pantry unsicher:")>> \o MsgItems(pantry_uncertain_list)
        ELSE <<>>)

aggregate_shop_items(days, recipes, pantry_items) ==
    LET Lists(acc, buy_list, pantry_used_list, pantry_uncertain_list) ==
            [buy |-> buy_list,
             buy_lines |-> acc.buy_lines,
             pantry_used |-> pantry_used_list,
             pantry_uncertain_used |-> pantry_uncertain_list,
             message |-> (IF buy_list = <<>>
                          THEN <<MsgText("Einkaufsliste ist leer (oder alle Zutaten sind Pantry).")>>
                          ELSE <<MsgText("Einkaufsliste (aggregiert):")>> \o MsgItems(buy_list))
                         \o PantryMessage(pantry_used_list, pantry_uncertain_list)]
        Counted(acc) ==
            Lists(acc, to_list(acc.buy_counts, acc.buy_display),
                  to_list(acc.pantry_used_counts, <<>>),
                  to_list(acc.pantry_uncertain_counts, <<>>))
    IN  Counted(ClassifyLines([buy_counts |-> <<>>, buy_display |-> <<>>,
                               buy_lines |-> <<>>, pantry_used_counts |-> <<>>,
                               pantry_uncertain_counts |-> <<>>],
                              build_pantry_alias_map(pantry_items),
                              PlannedIngredients(days, recipes, 1), 1))

\* Ingredient lines of recipe rows and names of pantry items.
Bruehe == <<"B", "r", "ü", "h", "e">>
Bouillon == <<"B", "o", "u", "i", "l", "l", "o", "n">>
EineBruehe == <<"1", " ">> \o Bruehe
BouillonWuerfel == Bouillon \o <<" ", "W", "ü", "r", "f", "e", "l">>
Mehl == <<"M", "e", "h", "l">>

IngredientLines == {Bruehe, Bouillon, EineBruehe, BouillonWuerfel, Mehl, <<".">>}

\* Recipe rows by id: recipe 1 with any ingredient list, recipe 2 with flour.
RecipeRows ==
    {(1 :> ings) @@ (2 :> <<Mehl>>) : ings \in SeqsUpTo(IngredientLines, MaxIngredients)}

BruehePantry == <<PantryItem(Bruehe, FALSE, <<Bouillon>>)>>

PantryLists ==
    {<<>>, BruehePantry, <<PantryItem(Bruehe, TRUE, <<Bouillon>>)>>,
     <<PantryItem(Mehl, TRUE, <<>>), PantryItem(Mehl, FALSE, <<Bruehe>>)>>}

\* Plans: recipes 1 and 2, a placeholder, an empty slot, and a recipe whose
\* row no longer exists.
ShopDayMaps ==
    {[d \in WeekDays |-> IF d = 1 THEN RecipeRef(1)
                         ELSE IF d = 2 THEN RecipeRef(2) ELSE DummyTitle(d)],
     [d \in WeekDays |-> IF d = 4 THEN RecipeRef(1)
                         ELSE IF d = 2 THEN RecipeRef(3) ELSE EmptySlot],
     [d \in 1..3 |-> IF d = 1 THEN RecipeRef(2) ELSE RecipeRef(1)]}

AggregateCalls ==
    {Pending("aggregate_shop_items", [days |-> d, recipes |-> r, pantry_items |-> p]) :
        d \in ShopDayMaps, r \in RecipeRows, p \in PantryLists}

AggregateInit == IdleStore /\ call \in AggregateCalls

CallAggregateShopItems ==
    /\ call.fn = "aggregate_shop_items"
    /\ Returns(aggregate_shop_items(call.args.days, call.args.recipes,
                                    call.args.pantry_items))

AggregateNext == CallAggregateShopItems

AggregateSpec == AggregateInit /\ [][AggregateNext]_vars

\* ------------------------------------------------------ shop_ai: stage A
\* A missing value (Python None) is the empty list; an amount is <<n>>.
None == <<>>

AsciiLower == {LowerChars[i] : i \in 1..26}
AlnumChars == AsciiLower \cup Range(DigitChars)
AllChars == Range(CodeOrder)

\* The end of the first token of t, which starts with a non-separator.
TokenEnd(t, seps) ==
    IF \E i \in DOMAIN t : t[i] \in seps
    THEN (CHOOSE i \in DOMAIN t : t[i] \in seps /\ \A j \in 1..(i - 1) : t[j] \notin seps) - 1
    ELSE Len(t)

\* str.split() and [t for t in re.split("[seps]+", s) if t].
RECURSIVE SplitOn(_, _)
SplitOn(s, seps) ==
    LET t == LStrip(s, seps)
    IN  IF t = <<>> THEN <<>>
        ELSE <<SubSeq(t, 1, TokenEnd(t, seps))>>
             \o SplitOn(SubSeq(t, TokenEnd(t, seps) + 1, Len(t)), seps)

\* " ".join(words)
RECURSIVE Join(_)
Join(words) ==
    IF words = <<>> THEN <<>>
    ELSE IF Len(words) = 1 THEN words[1]
    ELSE words[1] \o <<" ">> \o Join(Tail(words))

StartsWith(s, prefix) == Len(s) >= Len(prefix) /\ SubSeq(s, 1, Len(prefix)) = prefix

\* s[i:] and s[:i] with Python's 0-based index i.
From(s, i) == SubSeq(s, i + 1, Len(s))

\* int(digits) for a string of digits.
RECURSIVE DigitsValue(_)
DigitsValue(digits) ==
    IF digits = <<>> THEN 0
    ELSE 10 * DigitsValue(DropLast(digits, 1)) + (IndexOf(DigitChars, digits[Len(digits)]) - 1)

\* str(n) for n >= 0.
RECURSIVE IntStr(_)
IntStr(n) ==
    IF n < 10 THEN <<DigitChars[n + 1]>>
    ELSE IntStr(n \div 10) \o <<DigitChars[(n % 10) + 1]>>

\* .replace("ä", "ae").replace("ö", "oe").replace("ü", "ue").replace("ß", "ss")
TransliterateChar(c) ==
    CASE c = "ä" -> <<"a", "e">>
      [] c = "ö" -> <<"o", "e">>
      [] c = "ü" -> <<"u", "e">>
      [] c = "ß" -> <<"s", "s">>
      [] OTHER -> <<c>>

RECURSIVE Transliterate(_)
Transliterate(s) ==
    IF s = <<>> THEN <<>> ELSE TransliterateChar(Head(s)) \o Transliterate(Tail(s))

_UNIT_CANON ==
    <<[k |-> <<"k", "g">>, v |-> <<"g">>], [k |-> <<"g">>, v |-> <<"g">>],
      [k |-> <<"g", "r", "a", "m", "m">>, v |-> <<"g">>],
      [k |-> <<"l">>, v |-> <<"m", "l">>], [k |-> <<"m", "l">>, v |-> <<"m", "l">>],
      [k |-> <<"c", "l">>, v |-> <<"m", "l">>],
      [k |-> <<"e", "l">>, v |-> <<"e", "l">>], [k |-> <<"t", "l">>, v |-> <<"t", "l">>],
      [k |-> <<"s", "t", "k">>, v |-> <<"s", "t", "u", "e", "c", "k">>],
      [k |-> <<"s", "t", "u", "e", "c", "k">>, v |-> <<"s", "t", "u", "e", "c", "k">>],
      [k |-> <<"s", "t", "ü", "c", "k">>, v |-> <<"s", "t", "u", "e", "c", "k">>]>>

_UNIT_PARSE ==
    <<[k |-> <<"k", "g">>, v |-> <<"k", "g">>], [k |-> <<"g">>, v |-> <<"g">>],
      [k |-> <<"g", "r", "a", "m", "m">>, v |-> <<"g">>],
      [k |-> <<"l">>, v |-> <<"l">>], [k |-> <<"m", "l">>, v |-> <<"m", "l">>],
      [k |-> <<"c", "l">>, v |-> <<"c", "l">>],
      [k |-> <<"e", "l">>, v |-> <<"e", "l">>], [k |-> <<"t", "l">>, v |-> <<"t", "l">>],
      [k |-> <<"s", "t", "k">>, v |-> <<"s", "t", "u", "e", "c", "k">>],
      [k |-> <<"s", "t", "u", "e", "c", "k">>, v |-> <<"s", "t", "u", "e", "c", "k">>],
      [k |-> <<"s", "t", "ü", "c", "k">>, v |-> <<"s", "t", "u", "e", "c", "k">>]>>

_UNIT_FACTOR_TO_BASE ==
    <<[k |-> <<"k", "g">>, v |-> 1000], [k |-> <<"g">>, v |-> 1], [k |-> <<"g", "r", "a", "m", "m">>, v |-> 1],
      [k |-> <<"l">>, v |-> 1000], [k |-> <<"m", "l">>, v |-> 1], [k |-> <<"c", "l">>, v |-> 10]>>

_STOPWORDS ==
    {<<"f", "r", "i", "s", "c", "h">>, <<"f", "r", "i", "s", "c", "h", "e">>, <<"f", "r", "i", "s", "c", "h", "e", "r">>, <<"f", "r", "i", "s", "c", "h", "e", "n">>, <<"k", "l", "e", "i", "n">>,
     <<"k", "l", "e", "i", "n", "e">>, <<"g", "r", "o", "s", "s">>, <<"g", "r", "o", "ß">>, <<"f", "e", "i", "n">>, <<"g", "e", "h", "a", "c", "k", "t">>, <<"g", "e", "r", "i", "e", "b", "e", "n">>}

_TOKEN_ALIAS ==
    <<[k |-> <<"k", "n", "o", "b", "l", "a", "u", "c", "h", "z", "e", "h", "e">>, v |-> <<"k", "n", "o", "b", "l", "a", "u", "c", "h">>],
      [k |-> <<"k", "n", "o", "b", "l", "a", "u", "c", "h", "z", "e", "h", "e", "n">>, v |-> <<"k", "n", "o", "b", "l", "a", "u", "c", "h">>],
      [k |-> <<"z", "e", "h", "e">>, v |-> <<>>], [k |-> <<"z", "e", "h", "e", "n">>, v |-> <<>>]>>

\* The number-word alternatives of _LEADING_AMOUNT_RE in the order the
\* pattern lists them, with their values in _NUMBER_WORDS.
_NUMBER_WORDS ==
    <<[k |-> <<"e", "i", "n">>, v |-> 1], [k |-> <<"e", "i", "n", "e">>, v |-> 1], [k |-> <<"e", "i", "n", "e", "n">>, v |-> 1],
      [k |-> <<"e", "i", "n", "e", "r">>, v |-> 1], [k |-> <<"z", "w", "e", "i">>, v |-> 2], [k |-> <<"d", "r", "e", "i">>, v |-> 3],
      [k |-> <<"v", "i", "e", "r">>, v |-> 4], [k |-> <<"f", "u", "e", "n", "f">>, v |-> 5], [k |-> <<"f", "ü", "n", "f">>, v |-> 5],
      [k |-> <<"s", "e", "c", "h", "s">>, v |-> 6], [k |-> <<"s", "i", "e", "b", "e", "n">>, v |-> 7], [k |-> <<"a", "c", "h", "t">>, v |-> 8],
      [k |-> <<"n", "e", "u", "n">>, v |-> 9], [k |-> <<"z", "e", "h", "n">>, v |-> 10]>>

_CATEGORY_KEYWORDS ==
    <<{<<"r", "i", "n", "d">>, <<"h", "u", "h", "n">>, <<"h", "a", "c", "k">>, <<"l", "a", "c", "h", "s">>, <<"f", "i", "s", "c", "h">>, <<"f", "l", "e", "i", "s", "c", "h">>, <<"t", "o", "f", "u">>,
       <<"g", "a", "r", "n", "e", "l", "e", "n">>},
      {<<"t", "o", "m", "a", "t">>, <<"z", "w", "i", "e", "b", "e", "l">>, <<"k", "n", "o", "b", "l", "a", "u", "c", "h">>, <<"p", "a", "p", "r", "i", "k", "a">>, <<"s", "a", "l", "a", "t">>, <<"g", "u", "r", "k">>,
       <<"k", "a", "r", "o", "t", "t", "e">>, <<"k", "a", "r", "t", "o", "f", "f", "e", "l">>, <<"b", "r", "o", "k", "k", "o", "l", "i">>, <<"o", "b", "s", "t">>},
      {<<"r", "e", "i", "s">>, <<"n", "u", "d", "e", "l">>, <<"p", "a", "s", "t", "a">>, <<"m", "e", "h", "l">>, <<"b", "r", "o", "t">>, <<"h", "a", "f", "e", "r">>, <<"b", "o", "h", "n", "e">>,
       <<"l", "i", "n", "s", "e", "n">>},
      {<<"m", "i", "l", "c", "h">>, <<"k", "a", "e", "s", "e">>, <<"k", "ä", "s", "e">>, <<"j", "o", "g", "h", "u", "r", "t">>, <<"s", "a", "h", "n", "e">>, <<"b", "u", "t", "t", "e", "r">>, <<"e", "i">>},
      {<<"s", "a", "l", "z">>, <<"p", "f", "e", "f", "f", "e", "r">>, <<"c", "u", "r", "r", "y">>, <<"p", "a", "p", "r", "i", "k", "a", "p", "u", "l", "v", "e", "r">>, <<"z", "i", "m", "t">>, <<"o", "r", "e", "g", "a", "n", "o">>,
       <<"b", "a", "s", "i", "l", "i", "k", "u", "m">>, <<"c", "h", "i", "l", "i">>, <<"e", "s", "s", "i", "g">>, <<"s", "e", "n", "f">>}>>

\* dict.get(key, default)
DictGetOr(dict, key, default) ==
    IF key \in DictKeys(dict) THEN DictGet(dict, key) ELSE default

_normalize_key(value) ==
    SelectSeq(Transliterate(Lower(Strip(value))), LAMBDA c : c \in AlnumChars)

_title_word(word) ==
    IF word = <<>> THEN word ELSE <<UpperChar(word[1])>> \o Tail(word)

\* One token of _clean_name_for_merge's loop: <<>> when it is skipped.
NormToken(tok0) ==
    LET tok == DictGetOr(_TOKEN_ALIAS, tok0, tok0)
    IN  IF tok = <<>> \/ tok \in _STOPWORDS THEN <<>>
        ELSE IF EndsWith(tok, <<"e", "n">>) /\ Len(tok) > 4 THEN <<DropLast(tok, 2)>>
        ELSE IF EndsWith(tok, <<"e">>) /\ Len(tok) > 4 THEN <<DropLast(tok, 1)>>
        ELSE <<tok>>

RECURSIVE NormTokens(_)
NormTokens(tokens) ==
    IF tokens = <<>> THEN <<>> ELSE NormToken(Head(tokens)) \o NormTokens(Tail(tokens))

_clean_name_for_merge(name) ==
    LET Cleaned(norm_tokens) ==
            IF norm_tokens = <<>> THEN Lower(Strip(name)) ELSE Join(norm_tokens)
        Tokens(s2) == Cleaned(NormTokens(SplitOn(s2, WhiteSpace \cup {"-"})))
        Letters(s1) == Tokens(SubRuns(s1, 1, AllChars \ (AlnumChars \cup WhiteSpace \cup {"-"})))
    IN  Letters(Transliterate(Lower(Strip(name))))

\* The longest run of digits s starts with.
RECURSIVE DigitRun(_)
DigitRun(s) ==
    IF s # <<>> /\ Head(s) \in Range(DigitChars) THEN <<Head(s)>> \o DigitRun(Tail(s)) ELSE <<>>

\* The number-word alternatives that match at the start of s and leave a
\* non-empty rest, by their position in the pattern.
WordMatches(s) ==
    {i \in DOMAIN _NUMBER_WORDS :
        StartsWith(Lower(s), _NUMBER_WORDS[i].k) /\ Len(s) > Len(_NUMBER_WORDS[i].k)}

\* _LEADING_AMOUNT_RE.match(s) for a stripped line s without a decimal
\* separator: the text of group "num", or None when there is no match. The
\* digit alternative comes first and gives its last digit back when the
\* digits are the whole line; then the first number word that matches wins.
LeadingAmountNum(s) ==
    LET FirstWord(words) ==
            SubSeq(s, 1, Len(_NUMBER_WORDS[CHOOSE i \in words : \A j \in words : i <= j].k))
        Leading(digits) ==
            IF digits # <<>> /\ Len(digits) < Len(s) THEN digits
            ELSE IF Len(digits) > 1 THEN DropLast(digits, 1)
            ELSE IF WordMatches(s) # {} THEN FirstWord(WordMatches(s))
            ELSE None
    IN  Leading(DigitRun(s))

_parse_leading_amount(line) ==
    LET Amount(s, num, num_raw, rest) ==
            IF num = None THEN [amount |-> None, rest |-> s]
            ELSE IF num_raw \in DictKeys(_NUMBER_WORDS)
                 THEN [amount |-> <<DictGet(_NUMBER_WORDS, num_raw)>>, rest |-> rest]
            ELSE [amount |-> <<DigitsValue(num_raw)>>, rest |-> rest]
        Match(s, num) == Amount(s, num, Lower(num), Strip(From(s, Len(num))))
        Stripped(s) == Match(s, LeadingAmountNum(s))
    IN  Stripped(Strip(line))

_split_unit_name(rest) ==
    LET Split(parts, unit_candidate) ==
            IF parts = <<>> THEN [unit |-> <<>>, name |-> <<>>]
            ELSE IF Len(parts) = 1 THEN [unit |-> <<>>, name |-> parts[1]]
            ELSE IF unit_candidate \in DictKeys(_UNIT_PARSE)
                 THEN [unit |-> DictGet(_UNIT_PARSE, unit_candidate),
                       name |-> Strip(Join(Tail(parts)))]
            ELSE [unit |-> <<>>, name |-> Strip(rest)]
        Parts(parts) == Split(parts, RStrip(Lower(Strip(parts[1])), {"."}))
    IN  Parts(SplitOn(rest, WhiteSpace))

\* _format_amount for a whole number.
_format_amount(value) == IntStr(value)

\* w in ln
Contains(ln, w) == \E i \in 0..(Len(ln) - Len(w)) : SubSeq(ln, i + 1, i + Len(w)) = w

_category_rank(name) ==
    LET ln == Lower(name)
        hits == {rank \in DOMAIN _CATEGORY_KEYWORDS :
                    \E w \in _CATEGORY_KEYWORDS[rank] : Contains(ln, w)}
    IN  IF hits = {} THEN 3
        ELSE (CHOOSE rank \in hits : \A other \in hits : rank <= other) - 1

\* What the loop of _pre_aggregate_lines reads from one line.
ParsedLine(line) ==
    LET Keyed(parsed, split, name, key2) ==
            [amount |-> parsed.amount, unit |-> split.unit, name |-> name,
             merge_key |-> IF key2 = <<>> THEN _normalize_key(line) ELSE key2]
        Cleaned(parsed, split, name, key1) ==
            Keyed(parsed, split, name, IF key1 = <<>> THEN _normalize_key(name) ELSE key1)
        Named(parsed, split, name) == Cleaned(parsed, split, name, _clean_name_for_merge(name))
        Split(parsed, split) ==
            Named(parsed, split, IF split.name = <<>> THEN parsed.rest ELSE split.name)
        Amount(parsed) == Split(parsed, _split_unit_name(parsed.rest))
    IN  Amount(_parse_leading_amount(line))

\* dict[key] = value for a key the dict has: the key keeps its position.
DictPut(dict, key, value) ==
    [i \in DOMAIN dict |-> IF dict[i].k = key THEN [k |-> key, v |-> value] ELSE dict[i]]

\* The amount and unit of an entry after a further line with amount and
\* unit joins it, with no conversion between units.
MergeAmount_Unconverted(entry, amount, unit) ==
    IF amount = None \/ entry.amount = None
    THEN [entry EXCEPT !.summable = FALSE, !.amount = None]
    ELSE [entry EXCEPT !.amount = <<entry.amount[1] + amount[1]>>]

\* The amount and unit of an entry after a further line with amount and
\* unit joins it.
MergeAmount(entry, amount, unit) ==
    LET current_unit == entry.unit
        next_unit == unit
        Converted(base_current, base_next) ==
            IF /\ base_current \in DictKeys(_UNIT_FACTOR_TO_BASE)
               /\ base_next \in DictKeys(_UNIT_FACTOR_TO_BASE)
            THEN [entry EXCEPT
                    !.amount =
                        <<entry.amount[1]
                              * DictGetOr(_UNIT_FACTOR_TO_BASE,
                                          IF current_unit # <<>> THEN current_unit
                                          ELSE base_current, 1)
                          + amount[1]
                              * DictGetOr(_UNIT_FACTOR_TO_BASE,
                                          IF next_unit # <<>> THEN next_unit
                                          ELSE base_next, 1)>>,
                    !.unit = DictGetOr(_UNIT_CANON, base_current, base_current)]
            ELSE [entry EXCEPT !.summable = FALSE, !.amount = None]
    IN  IF amount = None \/ entry.amount = None
        THEN [entry EXCEPT !.summable = FALSE, !.amount = None]
        ELSE IF current_unit = next_unit
        THEN [entry EXCEPT !.amount = <<entry.amount[1] + amount[1]>>]
        ELSE Converted(DictGetOr(_UNIT_CANON, current_unit, current_unit),
                       DictGetOr(_UNIT_CANON, next_unit, next_unit))

\* One round of the loop over the lines.
GroupLine(grouped, line) ==
    LET Named(p, entry) ==
            [entry EXCEPT
                !.raw = Append(entry.raw, Strip(line)),
                !.name = IF entry.name # <<>> /\ Len(Strip(p.name)) < Len(entry.name)
                         THEN Strip(p.name) ELSE entry.name]
        Grouped(p) ==
            IF p.merge_key \notin DictKeys(grouped)
            THEN Append(grouped,
                        [k |-> p.merge_key,
                         v |-> [name |-> Strip(p.name), unit |-> p.unit,
                                amount |-> p.amount, raw |-> <<Strip(line)>>,
                                summable |-> p.amount # None]])
            ELSE DictPut(grouped, p.merge_key,
                         MergeAmount(Named(p, DictGet(grouped, p.merge_key)),
                                     p.amount, p.unit))
    IN  Grouped(ParsedLine(line))

\* grouped after the loop over the first i lines.
RECURSIVE GroupLines(_, _)
GroupLines(lines, i) ==
    IF i = 0 THEN <<>> ELSE GroupLine(GroupLines(lines, i - 1), lines[i])

\* The output line of one entry.
EntryLine(entry) ==
    LET qty == _format_amount(entry.amount[1])
        unit == Strip(entry.unit)
        Line(base_name) ==
            IF entry.summable /\ entry.amount # None
            THEN IF unit # <<>> THEN Strip(qty \o <<" ">> \o unit \o <<" ">> \o base_name)
                 ELSE Strip(qty \o <<" ">> \o base_name)
            ELSE Strip(base_name)
        Titled(titled) ==
            Line(IF titled = <<>> /\ entry.raw # <<>> THEN entry.raw[1] ELSE titled)
        Words(words) == Titled(Join([i \in DOMAIN words |-> _title_word(words[i])]))
    IN  Words(SplitOn(entry.name, WhiteSpace))

\* key(a) < key(b) for the key (_category_rank(x), x.lower()).
RankLess(a, b) ==
    \/ _category_rank(a) < _category_rank(b)
    \/ _category_rank(a) = _category_rank(b) /\ StrLess(Lower(a), Lower(b))

RECURSIVE InsertByRank(_, _)
InsertByRank(sorted, x) ==
    IF sorted = <<>> THEN <<x>>
    ELSE IF RankLess(x, Head(sorted)) THEN <<x>> \o sorted
    ELSE <<Head(sorted)>> \o InsertByRank(Tail(sorted), x)

RECURSIVE SortedByRank(_, _)
SortedByRank(result, i) ==
    IF i = 0 THEN <<>> ELSE InsertByRank(SortedByRank(result, i - 1), result[i])

_pre_aggregate_lines(lines) ==
    LET Ordered(result) == SortedByRank(result, Len(result))
        Result(grouped) == Ordered([i \in DOMAIN grouped |-> EntryLine(grouped[i].v)])
    IN  Result(GroupLines(lines, Len(lines)))

\* The buy lines stage A is called with.
StageALines ==
    {<<"2", " ", "E", "L", " ", "Ö", "l">>, <<"1", " ", "E", "L", " ", "Ö", "l">>, <<"1", " ", "T", "L", " ", "Ö", "l">>,
     <<"5", "0", "0", " ", "g", " ", "M", "e", "h", "l">>, <<"1", " ", "k", "g", " ", "M", "e", "h", "l">>, <<"M", "e", "h", "l">>,
     <<"1", " ", "l", " ", "M", "i", "l", "c", "h">>, <<"5", "0", " ", "c", "l", " ", "M", "i", "l", "c", "h">>, <<"2", "0", "0", " ", "g", " ", "M", "i", "l", "c", "h">>,
     <<"e", "i", "n", "e", " ", "Z", "w", "i", "e", "b", "e", "l">>, <<"f", "r", "i", "s", "c", "h", "e", " ", "T", "o", "m", "a", "t", "e", "n">>, <<"t", "o", "m", "a", "t", "e">>, <<"L", "a", "c", "h", "s">>}

StageACalls ==
    {Pending("_pre_aggregate_lines", lines) : lines \in SeqsUpTo(StageALines, MaxStageALines)}

StageAInit == IdleStore /\ call \in StageACalls

CallPreAggregateLines ==
    /\ call.fn = "_pre_aggregate_lines"
    /\ Returns(_pre_aggregate_lines(call.args))

StageANext == CallPreAggregateLines

StageASpec == StageAInit /\ [][StageANext]_vars

\* ------------------------------------------------ shop_ai: the validator
\* _CALC_STYLE_RE.search(s): a digit, an operator sign and a digit, with
\* any whitespace between them.
CalcSigns == {"+", "=", "*", "/", "-"}

CalcStyle(s) ==
    \E i, j, k \in DOMAIN s :
        /\ i < j /\ j < k
        /\ s[i] \in Range(DigitChars) /\ s[j] \in CalcSigns /\ s[k] \in Range(DigitChars)
        /\ \A m \in (i + 1)..(k - 1) : m # j => s[m] \in WhiteSpace

_looks_like_calculation(value) ==
    LET stripped == Strip(value)
    IN  CalcStyle(stripped) \/ Contains(stripped, <<" ", "+", " ">>) \/ "=" \in Range(stripped)

\* One group of the assistant's answer. A field of the wrong type or a
\* missing field is None.
Group(merged_line, canonical_name, source_indexes) ==
    [is_dict |-> TRUE, merged_line |-> merged_line, canonical_name |-> canonical_name,
     source_indexes |-> source_indexes]

NotADict ==
    [is_dict |-> FALSE, merged_line |-> None, canonical_name |-> None,
     source_indexes |-> None]

\* The local variables of _validate_grouped_output before its first group;
\* `claimed` records for every output line the input indexes it stands for.
NoGroupsSeen ==
    [returned_none |-> FALSE, seen_indexes |-> {}, seen_groups |-> {},
     output_lines |-> <<>>, claimed |-> <<>>]

\* One round of the loop over the groups.
ValidateGroup(st, group, input_count) ==
    LET merged_line == group.merged_line
        canonical_name == IF Strip(group.canonical_name) = <<>> THEN merged_line
                          ELSE group.canonical_name
        source_indexes == group.source_indexes
        local_indexes == {idx \in Range(source_indexes) :
                            /\ ~(idx < 0 \/ idx >= input_count)
                            /\ idx \notin st.seen_indexes}
        key1 == _normalize_key(canonical_name)
        group_key == IF key1 = <<>> THEN _normalize_key(merged_line) ELSE key1
    IN  IF st.returned_none THEN st
        ELSE IF ~group.is_dict THEN [st EXCEPT !.returned_none = TRUE]
        ELSE IF Strip(merged_line) = <<>> THEN st
        ELSE IF _looks_like_calculation(merged_line) THEN st
        ELSE IF source_indexes = <<>> THEN st
        ELSE IF local_indexes = {} THEN st
        ELSE IF group_key = <<>> THEN st
        ELSE IF group_key \in st.seen_groups THEN st
        ELSE [st EXCEPT !.seen_groups = @ \cup {group_key},
                        !.seen_indexes = @ \cup local_indexes,
                        !.output_lines = Append(@, Strip(merged_line)),
                        !.claimed = Append(@, local_indexes)]

RECURSIVE ValidateGroups(_, _, _)
ValidateGroups(groups, i, input_count) ==
    IF i = 0 THEN NoGroupsSeen
    ELSE ValidateGroup(ValidateGroups(groups, i - 1, input_count), groups[i], input_count)

\* The loop that appends the uncovered input rows, up to index idx - 1.
RECURSIVE AppendUncovered(_, _, _)
AppendUncovered(st, cleaned_input, idx) ==
    IF idx = 0 THEN st
    ELSE LET before == AppendUncovered(st, cleaned_input, idx - 1)
             raw_line == Strip(cleaned_input[idx])
         IN  IF (idx - 1) \in st.seen_indexes \/ raw_line = <<>> THEN before
             ELSE [before EXCEPT !.output_lines = Append(@, raw_line),
                                 !.claimed = Append(@, {idx - 1})]

DedupKey(line) ==
    IF _normalize_key(line) = <<>> THEN Lower(Strip(line)) ELSE _normalize_key(line)

\* The final loop: a line whose key an earlier line has is left out.
Deduped(output_lines) ==
    SelectSeq([i \in DOMAIN output_lines |->
                  [line |-> output_lines[i],
                   first |-> \A j \in 1..(i - 1) :
                                DedupKey(output_lines[j]) # DedupKey(output_lines[i])]],
              LAMBDA x : x.first)

\* The output lines before the final loop, with the indexes they stand for.
ValidatorLines(data, cleaned_input) ==
    AppendUncovered(ValidateGroups(data.groups, Len(data.groups), Len(cleaned_input)),
                    cleaned_input, Len(cleaned_input))

_validate_grouped_output(data, cleaned_input) ==
    LET st == ValidatorLines(data, cleaned_input)
        deduped == Deduped(st.output_lines)
    IN  IF ~data.groups_is_list \/ data.groups = <<>> THEN None
        ELSE IF st.returned_none THEN None
        ELSE [i \in DOMAIN deduped |-> deduped[i].line]

\* The assistant's answers and the input lines the validator is called with.
Zucker == <<"Z", "u", "c", "k", "e", "r">>
MehlLower == <<"m", "e", "h", "l">>
MergedLines == {Mehl, Zucker, <<>>, <<"1", "+", "1", " ", "M", "e", "h", "l">>}
CanonicalNames == {None, Mehl, Zucker}
SourceIndexLists == {<<>>, <<0>>, <<1>>, <<0, 1>>, <<0, 0>>, <<2>>}

Groups ==
    {NotADict} \cup {Group(m, c, s) : m \in MergedLines, c \in CanonicalNames,
                                      s \in SourceIndexLists}

AssistantData ==
    {[groups_is_list |-> FALSE, groups |-> <<>>]}
    \cup {[groups_is_list |-> TRUE, groups |-> g] : g \in SeqsUpTo(Groups, MaxGroups)}

ValidatorInputs == SeqsUpTo({Mehl, MehlLower, Zucker}, MaxInputLines) \ {<<>>}

ValidatorCalls ==
    {Pending("_validate_grouped_output", [data |-> d, cleaned_input |-> c]) :
        d \in AssistantData, c \in ValidatorInputs}

ValidatorInit == IdleStore /\ call \in ValidatorCalls

CallValidateGroupedOutput ==
    /\ call.fn = "_validate_grouped_output"
    /\ Returns(_validate_grouped_output(call.args.data, call.args.cleaned_input))

ValidatorNext == CallValidateGroupedOutput

ValidatorSpec == ValidatorInit /\ [][ValidatorNext]_vars

\* ------------------------------------- shop_ai / shop_output: consolidation
\* [p.strip() for p in _SPLIT_SEPARATORS_RE.split(line) if p and p.strip()]
RECURSIVE StripAll(_)
StripAll(parts) ==
    IF parts = <<>> THEN <<>>
    ELSE (IF Strip(Head(parts)) = <<>> THEN <<>> ELSE <<Strip(Head(parts))>>)
         \o StripAll(Tail(parts))

\* The words _AND_SPLIT_RE splits at when whitespace surrounds them.
AndWords == {<<"u", "n", "d">>, <<"&">>, <<"+">>}

\* _AND_SPLIT_RE.split over the whitespace-separated tokens of a part, from
\* token i on: `current` holds the tokens of the piece being read, and a
\* token right after a separator cannot be one (its whitespace is used up).
RECURSIVE AndPieces(_, _, _, _)
AndPieces(tokens, i, current, after_separator) ==
    IF i > Len(tokens) THEN <<current>>
    ELSE IF /\ i > 1 /\ i < Len(tokens)
            /\ Lower(tokens[i]) \in AndWords
            /\ ~after_separator
         THEN <<current>> \o AndPieces(tokens, i + 1, <<>>, TRUE)
         ELSE AndPieces(tokens, i + 1, Append(current, tokens[i]), FALSE)

\* re.sub("\s+", " ", item).strip(" -") for every piece, the empty ones left out.
RECURSIVE CleanedPieces(_)
CleanedPieces(pieces) ==
    IF pieces = <<>> THEN <<>>
    ELSE LET cleaned == RStrip(LStrip(Join(Head(pieces)), {" ", "-"}), {" ", "-"})
         IN  (IF cleaned = <<>> THEN <<>> ELSE <<cleaned>>) \o CleanedPieces(Tail(pieces))

\* The characters \w matches.
WordChars == Range(UpperChars) \cup Range(LowerChars) \cup Range(DigitChars) \cup {"ß", "_"}

\* The word that starts at position i of s.
WordAt(s, i) ==
    SubSeq(s, i, CHOOSE e \in i..Len(s) :
                    /\ \A j \in i..e : s[j] \in WordChars
                    /\ e = Len(s) \/ s[e + 1] \notin WordChars)

\* The positions where _QUANTITY_HINT_RE matches in a part without a decimal
\* separator: the words that are a number or a number word.
QuantityHints(part) ==
    {i \in DOMAIN part :
        /\ i = 1 \/ part[i - 1] \notin WordChars
        /\ part[i] \in WordChars
        /\ \/ Range(WordAt(part, i)) \subseteq Range(DigitChars)
           \/ Lower(WordAt(part, i)) \in DictKeys(_NUMBER_WORDS)}

\* _AND_SPLIT_RE.search(part)
AndSearch(part) == Len(AndPieces(SplitOn(part, WhiteSpace), 1, <<>>, FALSE)) > 1

\* Variant: a part is split only when it has two quantity hints.
ExpandPart_HintsOnly(part) ==
    CleanedPieces(IF Cardinality(QuantityHints(part)) >= 2
                  THEN AndPieces(SplitOn(part, WhiteSpace), 1, <<>>, FALSE)
                  ELSE <<SplitOn(part, WhiteSpace)>>)

\* The body of the loop over the parts of a line.
ExpandPart(part) ==
    CleanedPieces(IF Cardinality(QuantityHints(part)) >= 2 \/ AndSearch(part)
                  THEN AndPieces(SplitOn(part, WhiteSpace), 1, <<>>, FALSE)
                  ELSE <<SplitOn(part, WhiteSpace)>>)

RECURSIVE ExpandParts(_)
ExpandParts(parts) ==
    IF parts = <<>> THEN <<>> ELSE ExpandPart(Head(parts)) \o ExpandParts(Tail(parts))

RECURSIVE _expand_compound_lines(_)
_expand_compound_lines(lines) ==
    IF lines = <<>> THEN <<>>
    ELSE ExpandParts(StripAll(SplitOn(Head(lines), {";", ","})))
         \o _expand_compound_lines(Tail(lines))

\* The lines the expansion is called with.
CompoundLines ==
    {<<"S", "a", "l", "z", " ", "u", "n", "d", " ", "P", "f", "e", "f", "f", "e", "r">>, <<"2", " ", "E", "i", "e", "r", " ", "u", "n", "d", " ", "1", " ", "Z", "w", "i", "e", "b", "e", "l">>, <<"z", "w", "e", "i", " ", "E", "i", "e", "r", " ", "&", " ", "M", "i", "l", "c", "h">>,
     <<"1", " ", "k", "g", " ", "M", "e", "h", "l", ",", " ", "Z", "u", "c", "k", "e", "r">>, <<"M", "i", "l", "c", "h", ";", " ", "3", " ", "E", "i", "e", "r", " ", "+", " ", "e", "i", "n", "e", " ", "Z", "w", "i", "e", "b", "e", "l">>, <<"M", "e", "h", "l">>,
     <<"5", "0", "0", " ", "g", " ", "R", "u", "n", "d", "-", "B", "r", "o", "t">>, <<"1", " ", "B", "u", "n", "d", " ", "P", "e", "t", "e", "r", "s", "i", "l", "i", "e">>, <<"E", "s", "s", "i", "g", " ", "U", "N", "D", " ", "2", " ", "E", "L", " ", "Ö", "l">>}

ExpandCalls ==
    {Pending("_expand_compound_lines", lines) :
        lines \in SeqsUpTo(CompoundLines, MaxCompoundLines)}

ExpandInit == IdleStore /\ call \in ExpandCalls

CallExpandCompoundLines ==
    /\ call.fn = "_expand_compound_lines"
    /\ Returns(_expand_compound_lines(call.args))

ExpandNext == CallExpandCompoundLines

ExpandSpec == ExpandInit /\ [][ExpandNext]_vars

\* The input of the assistant: the buy lines after stage A.
PreparedInput(to_buy_lines) ==
    LET Prepared(cleaned_input, prepared_input) ==
            IF prepared_input # <<>> THEN prepared_input ELSE cleaned_input
        Cleaned(cleaned_input) == Prepared(cleaned_input, _pre_aggregate_lines(cleaned_input))
    IN  Cleaned(_expand_compound_lines(StripAll(to_buy_lines)))

\* What the assistant call gives: it raises (timeout included), or
\* _parse_response_data finds no dict, or it finds the dict `data`.
Raises == [kind |-> "raises", data |-> [groups_is_list |-> FALSE, groups |-> <<>>]]
Unparseable == [kind |-> "unparseable", data |-> [groups_is_list |-> FALSE, groups |-> <<>>]]
Parsed(data) == [kind |-> "dict", data |-> data]

\* An optional value that is present.
Some(x) == <<x>>

\* transform_shop_list, with the environment it reads: the line cap, the
\* credential, whether the client imports, and the assistant's response.
transform_shop_list(to_buy_lines, env) ==
    LET unavailable == Some("AI Sortierung nicht verfügbar.")
        Validated(cleaned_input, cleaned_output) ==
            IF cleaned_output = None
            THEN [ai_lines |-> Some(cleaned_input), ai_note |-> unavailable]
            ELSE [ai_lines |-> Some(cleaned_output), ai_note |-> None]
        Transformed(cleaned_input) ==
            IF cleaned_input = <<>> THEN [ai_lines |-> Some(<<>>), ai_note |-> None]
            ELSE IF Len(cleaned_input) > env.max_ai_lines
            THEN [ai_lines |-> Some(cleaned_input),
                  ai_note |-> Some("AI Sortierung übersprungen (große Liste).")]
            ELSE IF ~env.has_api_key THEN [ai_lines |-> None, ai_note |-> unavailable]
            ELSE IF ~env.client_imports
            THEN [ai_lines |-> Some(cleaned_input), ai_note |-> unavailable]
            ELSE IF env.response.kind = "raises"
            THEN [ai_lines |-> Some(cleaned_input), ai_note |-> unavailable]
            ELSE IF env.response.kind # "dict"
            THEN [ai_lines |-> Some(cleaned_input), ai_note |-> unavailable]
            ELSE Validated(cleaned_input,
                           _validate_grouped_output(env.response.data, cleaned_input))
    IN  Transformed(PreparedInput(to_buy_lines))

format_shop_message(buy_lines, pantry_used_list, pantry_uncertain_list, note) ==
    (IF buy_lines = <<>>
     THEN <<MsgText("Einkaufsliste ist leer (oder alle Zutaten sind Pantry).")>>
     ELSE <<MsgText("Einkaufsliste:")>>
          \o [i \in DOMAIN buy_lines |-> MsgItem([name |-> buy_lines[i], count |-> 1])])
    \o PantryMessage(pantry_used_list, pantry_uncertain_list)
    \o (IF note # None THEN <<MsgText(""), MsgText(note[1])>> ELSE <<>>)

build_consolidated_output(days, recipes, pantry_items, env) ==
    LET Output(aggregated, ai_lines, ai_note) ==
            IF ai_lines # None
            THEN [mode |-> "ai_consolidated",
                  buy |-> [i \in DOMAIN ai_lines[1] |-> [name |-> ai_lines[1][i], count |-> 1]],
                  pantry_used |-> aggregated.pantry_used,
                  pantry_uncertain_used |-> aggregated.pantry_uncertain_used,
                  message |-> format_shop_message(ai_lines[1], aggregated.pantry_used,
                                                  aggregated.pantry_uncertain_used, None),
                  warning |-> None,
                  ai_applied |-> TRUE]
            ELSE [mode |-> "ai_consolidated",
                  buy |-> aggregated.buy,
                  pantry_used |-> aggregated.pantry_used,
                  pantry_uncertain_used |-> aggregated.pantry_uncertain_used,
                  message |-> IF ai_note # None
                              THEN aggregated.message \o <<MsgText(""), MsgText(ai_note[1])>>
                              ELSE aggregated.message,
                  warning |-> IF ai_note # None THEN ai_note ELSE None,
                  ai_applied |-> FALSE]
        Transformed(aggregated, ai) == Output(aggregated, ai.ai_lines, ai.ai_note)
        Aggregated(aggregated) ==
            Transformed(aggregated, transform_shop_list(aggregated.buy_lines, env))
    IN  Aggregated(aggregate_shop_items(days, recipes, pantry_items))

\* The week's shopping: recipe 1 with any of these ingredient lists and
\* recipe 2 with sugar, with and without stock in the pantry.
ConsolidateLines == {<<"5", "0", "0", " ", "g", " ", "M", "e", "h", "l">>, <<"1", " ", "k", "g", " ", "M", "e", "h", "l">>, <<"S", "a", "l", "z", " ", "u", "n", "d", " ", "P", "f", "e", "f", "f", "e", "r">>, Bruehe}

ConsolidateRecipes ==
    {(1 :> ings) @@ (2 :> <<Zucker>>) : ings \in SeqsUpTo(ConsolidateLines, MaxShopLines)}

ConsolidateDays ==
    [d \in WeekDays |-> IF d = 1 THEN RecipeRef(1)
                        ELSE IF d = 2 THEN RecipeRef(2) ELSE DummyTitle(d)]

\* The assistant's answers: up to MaxGroups of these groups, or no list.
ConsolidateGroups ==
    {NotADict, Group(<<"1", "5", "0", "0", " ", "g", " ", "M", "e", "h", "l">>, Mehl, <<0>>), Group(Zucker, Zucker, <<1>>)}

AssistantResponses ==
    {Raises, Unparseable, Parsed([groups_is_list |-> FALSE, groups |-> <<>>])}
    \cup {Parsed([groups_is_list |-> TRUE, groups |-> g]) :
             g \in SeqsUpTo(ConsolidateGroups, MaxGroups)}

\* OPENAI_SHOP_MAX_LINES is unset or "1".
Environments ==
    [max_ai_lines : {1, DefaultMaxLines}, has_api_key : BOOLEAN,
     client_imports : BOOLEAN, response : AssistantResponses]

ConsolidateCalls ==
    {Pending("build_consolidated_output",
             [days |-> ConsolidateDays, recipes |-> r, pantry_items |-> p, env |-> e]) :
        r \in ConsolidateRecipes, p \in {<<>>, BruehePantry}, e \in Environments}

ConsolidateInit == IdleStore /\ call \in ConsolidateCalls

CallBuildConsolidatedOutput ==
    /\ call.fn = "build_consolidated_output"
    /\ Returns(build_consolidated_output(call.args.days, call.args.recipes,
                                         call.args.pantry_items, call.args.env))

ConsolidateNext == CallBuildConsolidatedOutput

ConsolidateSpec == ConsolidateInit /\ [][ConsolidateNext]_vars

\* ------------------------------------------ swap requests at the same time
\* The endpoint is a plain def: the server runs two requests in two threads,
\* and every store access of _run_swap_preview is a transaction of its own.
\* A request is at one of these accesses; what it has read is local to it.
SwapRequest(swap_days) ==
    [swap_days |-> swap_days, at |-> "get_draft", uses_draft |-> FALSE,
     base_days |-> <<>>, read_avoid |-> {}, avoid_ids |-> {}]

\* The days two requests at the same time ask for.
RaceSwapDays == {<<1>>, <<2>>, <<1, 2>>}

\* The week before the two requests: a plan, and no draft or the draft of
\* one swap request handled on its own.
RaceWeeks ==
    LET plans == {build_new_week_plan(all_recipes, <<>>) : all_recipes \in RecipeTables}
    IN  {[plan |-> plan, drafts |-> <<>>] : plan \in plans}
        \cup {[plan |-> plan,
               drafts |-> db_create_draft(apply_swaps(all_recipes, 0, plan, swap_days, {}),
                                          swap_days)] :
                plan \in plans, all_recipes \in RecipeTables, swap_days \in {<<1>>, <<3>>}}

RaceInit ==
    /\ \E week \in RaceWeeks :
        /\ weekly_plans = db_upsert_weekly_plan(week.plan)
        /\ weekly_plan_drafts = week.drafts
    /\ swap_avoid = clear_swap_avoid_list
    /\ last = NoRequest
    /\ handled = 0
    /\ call = NoCall
    /\ swapping \in {<<SwapRequest(a), SwapRequest(b)>> : a, b \in RaceSwapDays}

\* Request r moves on, with its local variables changed as given.
Moves(r, request) ==
    /\ swapping' = [swapping EXCEPT ![r] = request]
    /\ UNCHANGED <<last, handled, call>>

\* base = _db_get_weekly_plan(...); draft = _db_get_draft(...)
GetDraft ==
    \E r \in DOMAIN swapping :
        /\ swapping[r].at = "get_draft"
        /\ HasPlan
        /\ Moves(r, [swapping[r] EXCEPT
                        !.at = IF UsesDraft THEN "get_avoid" ELSE "clear_avoid",
                        !.uses_draft = UsesDraft,
                        !.base_days = SwapBaseDays])
        /\ UNCHANGED <<weekly_plans, weekly_plan_drafts, swap_avoid>>

\* avoid_ids = set(_get_swap_avoid_list(...)), then update_avoid_list_for_reroll
GetAvoid ==
    \E r \in DOMAIN swapping :
        /\ swapping[r].at = "get_avoid"
        /\ Moves(r, [swapping[r] EXCEPT
                        !.at = "set_avoid",
                        !.read_avoid = Range(get_swap_avoid_list),
                        !.avoid_ids = update_avoid_list_for_reroll(
                                          swapping[r].base_days, swapping[r].swap_days,
                                          Range(get_swap_avoid_list))])
        /\ UNCHANGED <<weekly_plans, weekly_plan_drafts, swap_avoid>>

\* _set_swap_avoid_list(week_start, list(avoid_ids))
SetAvoid ==
    \E r \in DOMAIN swapping :
        /\ swapping[r].at = "set_avoid"
        /\ swap_avoid' = set_swap_avoid_list(SortedSet(swapping[r].avoid_ids))
        /\ Moves(r, [swapping[r] EXCEPT !.at = "create_draft"])
        /\ UNCHANGED <<weekly_plans, weekly_plan_drafts>>

\* The branch without a draft: _clear_swap_avoid_list(week_start)
ClearAvoid ==
    \E r \in DOMAIN swapping :
        /\ swapping[r].at = "clear_avoid"
        /\ swap_avoid' = clear_swap_avoid_list
        /\ Moves(r, [swapping[r] EXCEPT !.at = "create_draft"])
        /\ UNCHANGED <<weekly_plans, weekly_plan_drafts>>

\* proposed = apply_swaps(...); _db_create_draft(...)
CreateDraft ==
    \E r \in DOMAIN swapping :
        /\ swapping[r].at = "create_draft"
        /\ \E all_recipes \in RecipeTables, stamp \in Stamps :
            weekly_plan_drafts' =
                db_create_draft(apply_swaps(all_recipes, stamp, swapping[r].base_days,
                                            swapping[r].swap_days, swapping[r].avoid_ids),
                                swapping[r].swap_days)
        /\ Moves(r, [swapping[r] EXCEPT !.at = "returned"])
        /\ UNCHANGED <<weekly_plans, swap_avoid>>

RaceNext ==
    \/ GetDraft
    \/ GetAvoid
    \/ SetAvoid
    \/ ClearAvoid
    \/ CreateDraft

RaceSpec == RaceInit /\ [][RaceNext]_vars

\* ------------------------------------------------------- reading the state
DraftDays == NewestDraft.proposed_days
RequestedSwaps == NewestDraft.requested_swaps
Store == <<weekly_plans, weekly_plan_drafts, swap_avoid>>
SwapDone == last.op = "swap" /\ last.msg = "preview"

\* The days a chat command names, before de-duplication.
TokenDay(p) == IF p.isdigit THEN p.n ELSE DAY_ALIASES[p.w]
TokenValid(p) == IF p.isdigit THEN p.n \in WeekDays ELSE p.w \in DOMAIN DAY_ALIASES
HasRepeat(s) == \E i, j \in DOMAIN s : i # j /\ s[i] = s[j]

\* A chat command that names some day twice, by number or by alias.
ChatRepeat(parts) ==
    \E i, j \in DOMAIN parts :
        i # j /\ TokenValid(parts[i]) /\ TokenValid(parts[j])
              /\ TokenDay(parts[i]) = TokenDay(parts[j])

\* A chat command with a day number outside 1..7.
ChatOutOfRange(parts) ==
    \E i \in DOMAIN parts : parts[i].isdigit /\ parts[i].n \notin WeekDays

\* A web payload with a day outside 1..7.
WebOutOfRange(days) == \E i \in DOMAIN days : days[i] \notin WeekDays

\* The request named at least one day and every day it named is a day of the
\* week, each once (web) or possibly repeated (chat).
WellFormed(l) ==
    /\ l.input # <<>>
    /\ IF l.via = "web"
       THEN ~WebOutOfRange(l.input) /\ ~HasRepeat(l.input)
       ELSE \A i \in DOMAIN l.input : TokenValid(l.input[i])

\* The set of days a well-formed request names.
InputDays(l) ==
    IF l.via = "web" THEN Range(l.input)
    ELSE {TokenDay(l.input[i]) : i \in DOMAIN l.input}

ValidationErrors ==
    {"days must be non-empty", "days must be 1..7", "days must be unique",
     "swap needs days", "day numbers must be 1..7", "unknown day"}

NoDuplicateReal(days) ==
    \A d1, d2 \in DOMAIN days :
        (d1 # d2 /\ IsReal(days[d1]) /\ IsReal(days[d2])) => days[d1] # days[d2]

\* ------------------------------------------------------------------ claims

\* C1: building or regenerating the weekly plan (web or chat) leaves the week
\* in PlanOnly: after the request no draft exists for the week and the
\* avoid-set is empty.
C1_PlanLeavesPlanOnly ==
    last.op = "plan" => (weekly_plan_drafts = <<>> /\ swap_avoid = <<>>)

\* C2: scenario 2.  The plan has a real recipe on day 3 and there is no draft;
\* swap([3]) is requested twice in a row.  Whenever the second request puts a
\* real recipe on day 3, it is neither the plan's day-3 recipe nor the recipe
\* the first request put there.
C2_SecondRerollExcludesBoth ==
    [][ ( /\ SwapDone /\ last.branch = "plan" /\ RequestedSwaps = <<3>>
          /\ IsReal(PlanDays[3])
          /\ SwapDone' /\ RequestedSwaps' = <<3>> )
        => ( IsReal(DraftDays'[3])
               => (DraftDays'[3] # PlanDays[3] /\ DraftDays'[3] # DraftDays[3]) ) ]_vars

\* C3: within a drafting session, when a swap request rerolls a day X that the
\* draft's previous request also rerolled, the slot it assigns to X is never
\* the real recipe id that occupied X in the draft immediately before it.
C3_RerollNeverRepeats ==
    [][ (HasDraft /\ SwapDone')
        => \A X \in Range(RequestedSwaps) \cap Range(RequestedSwaps') :
              IsReal(DraftDays[X]) => DraftDays'[X] # DraftDays[X] ]_vars

\* A second reroll of day 3 that found a real recipe there (now in the
\* avoid-set) and put another real recipe in its place.
C3_Witness ==
    /\ SwapDone /\ last.branch = "draft" /\ handled = 3
    /\ RequestedSwaps = <<3>>
    /\ ~IsReal(PlanDays[3])
    /\ swap_avoid # <<>>
    /\ IsReal(DraftDays[3]) /\ DraftDays[3].n \notin Range(swap_avoid)

\* C4: after a successful swap request with day list D the draft's proposed
\* mapping has exactly the keys 1..7, D is the request's days, every day
\* outside D holds the slot of the base (the draft's proposed days if a draft
\* existed, otherwise the plan), and the plan is not modified.
C4_SwapConservation ==
    [][ SwapDone'
        => /\ DOMAIN DraftDays' = WeekDays
           /\ Range(RequestedSwaps') = InputDays(last')
           /\ \A d \in WeekDays \ Range(RequestedSwaps') :
                 DraftDays'[d] = (IF HasDraft THEN DraftDays ELSE PlanDays)[d]
           /\ weekly_plans' = weekly_plans ]_vars

\* A swap of day 5 stacked on a draft whose day 3 already differs from the plan.
C4_Witness ==
    /\ SwapDone /\ last.branch = "draft"
    /\ RequestedSwaps = <<5>>
    /\ DraftDays[3] # PlanDays[3]
    /\ DraftDays[1] = PlanDays[1]

\* C5: confirm in PlanWithDraft: afterwards the plan's mapping equals the
\* proposed days of the newest draft that existed before, no draft exists and
\* the avoid-set is empty.
C5_ConfirmInstallsDraft ==
    [][ (last'.op = "confirm" /\ HasPlan /\ HasDraft)
        => /\ weekly_plans' = <<DraftDays>>
           /\ weekly_plan_drafts' = <<>>
           /\ swap_avoid' = <<>> ]_vars

\* A confirm that found a plan, a draft and a non-empty avoid-set.
C5_Witness ==
    /\ last.op = "confirm" /\ last.msg = "confirmed"
    /\ last.from = "PlanWithDraft" /\ last.avoided
    /\ HasPlan /\ ~HasDraft /\ swap_avoid = <<>>

\* C6: cancel in PlanWithDraft: afterwards no draft exists, the avoid-set is
\* empty and the plan is exactly what it was.
C6_CancelDiscardsDraft ==
    [][ (last'.op = "cancel" /\ HasPlan /\ HasDraft)
        => /\ weekly_plan_drafts' = <<>>
           /\ swap_avoid' = <<>>
           /\ weekly_plans' = weekly_plans ]_vars

\* A cancel that found a plan, a draft and a non-empty avoid-set.
C6_Witness ==
    /\ last.op = "cancel" /\ last.msg = "discarded"
    /\ last.from = "PlanWithDraft" /\ last.avoided
    /\ HasPlan /\ ~HasDraft /\ swap_avoid = <<>>

\* C7: confirm and cancel with no draft leave plan, draft and avoid-set
\* unchanged and return an outcome that is not an error and is not the outcome
\* of a draft actually confirmed or discarded.
C7_NoDraftIsDistinctNoOp ==
    [][ (last'.op \in {"confirm", "cancel"} /\ ~HasDraft)
        => /\ Store' = Store
           /\ last'.status = 200
           /\ last'.msg \notin {"confirmed", "discarded"} ]_vars

\* C8: a well-formed swap request for a week with no plan returns the not-ok
\* "no plan" result, and no swap request for such a week writes the plan, the
\* draft or the avoid-set.
C8_SwapWithoutPlan ==
    [][ (last'.op = "swap" /\ ~HasPlan)
        => /\ Store' = Store
           /\ WellFormed(last')
                => (last'.status = 200 /\ ~last'.ok /\ last'.msg = "no_plan") ]_vars

\* A swap of days 3 and 5 answered with "no plan".
C8_Witness ==
    /\ last.op = "swap" /\ last.msg = "no_plan" /\ last.from = "NoPlan"
    /\ InputDays(last) = {3, 5}
    /\ ~HasPlan /\ ~HasDraft

\* C9 as stated: on both entry points a swap input with a day number outside
\* 1..7 or a duplicated day produces no preview and writes nothing.
C9_BadDaysRejected ==
    [][ ( /\ last'.op = "swap"
          /\ IF last'.via = "web"
             THEN WebOutOfRange(last'.input) \/ HasRepeat(last'.input)
             ELSE ChatOutOfRange(last'.input) \/ ChatRepeat(last'.input) )
        => (~SwapDone' /\ Store' = Store) ]_vars

\* C9 amended: the web endpoint answers 400 to a day outside 1..7 and to a
\* duplicated day, the chat command answers a parse error to a day number
\* outside 1..7, both before any write; a chat command that repeats a valid
\* day is not rejected: with a plan present it previews the distinct days.
C9_BadDaysHandled ==
    [][ last'.op = "swap"
        => /\ (last'.via = "web"
                  /\ (WebOutOfRange(last'.input) \/ HasRepeat(last'.input)))
                => (last'.status = 400 /\ last'.msg \in ValidationErrors
                      /\ Store' = Store)
           /\ (last'.via = "chat" /\ ChatOutOfRange(last'.input))
                => (last'.msg \in ValidationErrors /\ Store' = Store)
           /\ (last'.via = "chat" /\ WellFormed(last') /\ ChatRepeat(last'.input)
                  /\ HasPlan)
                => (SwapDone' /\ RequestedSwaps' = SortedSet(InputDays(last'))) ]_vars

\* A chat command naming day 5 twice that produced a preview of day 5.
C9_Witness ==
    /\ SwapDone /\ last.via = "chat"
    /\ last.input = <<Word("fr"), Word("fr")>>
    /\ RequestedSwaps = <<5>>

\* C10: no real recipe id occupies two days of the plan, and none occupies
\* two days of the draft's proposed mapping.
C10_NoDuplicateRecipes ==
    /\ HasPlan => NoDuplicateReal(PlanDays)
    /\ HasDraft => NoDuplicateReal(DraftDays)

\* A draft with real recipes on both swapped days and on a day kept from the plan.
C10_Witness ==
    /\ SwapDone /\ RequestedSwaps = <<3, 5>>
    /\ IsReal(DraftDays[1]) /\ IsReal(DraftDays[3]) /\ IsReal(DraftDays[5])
    /\ IsReal(PlanDays[1])

\* C11: for every call of pick_recipes_for_days the picked list has at most
\* count ids, and picked ids plus placeholder tokens number exactly count.
C11_PickFillsCount ==
    Returned("pick_recipes_for_days")
        => /\ Len(call.out.picked) <= call.args.count
           /\ Len(call.out.picked) + Len(call.out.dummy) = call.args.count

\* C19: normalize_ingredient is idempotent: normalizing a result of
\* normalize_ingredient again returns it unchanged.
C19_NormalizeIdempotent ==
    Returned("normalize_ingredient") => normalize_ingredient(call.out) = call.out

\* The names of a count list.
ListNames(list) == {list[i].name : i \in DOMAIN list}

\* C20: scenario 3.  With the pantry item Brühe (alias Bouillon), a planned
\* recipe with the ingredient lines "1 Brühe" and "Bouillon Würfel": both
\* lines count for the pantry entry Brühe, and neither is in the buy list or
\* in the flat buy-line list.
C20_BrueheAliasResolves ==
    ( /\ Returned("aggregate_shop_items")
      /\ call.args.pantry_items = BruehePantry
      /\ {EineBruehe, BouillonWuerfel}
            \subseteq Range(PlannedIngredients(call.args.days, call.args.recipes, 1)) )
    => /\ ListNames(call.out.pantry_used) = {Bruehe}
       /\ EineBruehe \notin ListNames(call.out.buy)
       /\ BouillonWuerfel \notin ListNames(call.out.buy)
       /\ EineBruehe \notin Range(call.out.buy_lines)
       /\ BouillonWuerfel \notin Range(call.out.buy_lines)

\* ---------------------------------------------------------------- stage A
\* The merge groups stage A forms from the lines it was called with.
StageAGroups == GroupLines(call.args, Len(call.args))

\* How often x occurs in seq.
Occurrences(seq, x) == Cardinality({i \in DOMAIN seq : seq[i] = x})

RECURSIVE RawLines(_, _)
RawLines(grouped, i) ==
    IF i = 0 THEN <<>> ELSE RawLines(grouped, i - 1) \o grouped[i].v.raw

\* The words of the lines of a group, in lower case.
GroupWords(entry) ==
    UNION {Range(SplitOn(Lower(entry.raw[i]), WhiteSpace)) : i \in DOMAIN entry.raw}

\* The words of a group's name as its output line shows them.
ShownNameWords(entry) ==
    LET words == SplitOn(entry.name, WhiteSpace)
    IN  {_title_word(words[i]) : i \in DOMAIN words}

\* C16: stage A conserves its input: every input line lies in exactly one
\* merge group, the output has one line per merge group, and the name an
\* output line shows is made of words of the input lines of its group
\* (compared without regard to case, since the output capitalises them).
C16_StageAConservation ==
    Returned("_pre_aggregate_lines") =>
        /\ \A i \in DOMAIN call.args :
              Occurrences(RawLines(StageAGroups, Len(StageAGroups)), Strip(call.args[i]))
                  = Occurrences(call.args, call.args[i])
        /\ Len(call.out) = Len(StageAGroups)
        /\ \A g \in DOMAIN StageAGroups :
              /\ EntryLine(StageAGroups[g].v) \in Range(call.out)
              /\ \A w \in ShownNameWords(StageAGroups[g].v) :
                    Lower(w) \in GroupWords(StageAGroups[g].v)

\* The units of mass and of volume: those with base unit g and ml.
UnitsWithBase(base) ==
    {_UNIT_PARSE[i].v : i \in {j \in DOMAIN _UNIT_PARSE :
                                  DictGet(_UNIT_CANON, _UNIT_PARSE[j].v) = base}}
MassUnits == UnitsWithBase(<<"g">>)
VolumeUnits == UnitsWithBase(<<"m", "l">>)

SameMergeKey(lines) ==
    \A i, j \in DOMAIN lines : ParsedLine(lines[i]).merge_key = ParsedLine(lines[j]).merge_key
AllHaveAmounts(lines) == \A i \in DOMAIN lines : ParsedLine(lines[i]).amount # None
UnitsOf(lines) == {ParsedLine(lines[i]).unit : i \in DOMAIN lines}

\* The sum of the amounts of the first i lines, as written and in base units.
RECURSIVE SumAmounts(_, _)
SumAmounts(lines, i) ==
    IF i = 0 THEN 0 ELSE SumAmounts(lines, i - 1) + ParsedLine(lines[i]).amount[1]

RECURSIVE SumInBase(_, _)
SumInBase(lines, i) ==
    IF i = 0 THEN 0
    ELSE SumInBase(lines, i - 1)
         + ParsedLine(lines[i]).amount[1]
           * DictGet(_UNIT_FACTOR_TO_BASE, ParsedLine(lines[i]).unit)

\* The amount and the unit an output line shows.
ShownAmount(line) == _parse_leading_amount(line).amount
ShownUnit(line) == _split_unit_name(_parse_leading_amount(line).rest).unit

Incompatible(u1, u2) ==
    /\ u1 # u2
    /\ ~({u1, u2} \subseteq MassUnits)
    /\ ~({u1, u2} \subseteq VolumeUnits)

\* C18: when two lines with one merge key are merged and one of them has no
\* amount, or their units are incompatible, the merged line shows no amount.
C18_IncompatibleDropsAmount ==
    (/\ Returned("_pre_aggregate_lines")
     /\ Len(call.args) = 2
     /\ SameMergeKey(call.args)
     /\ \/ ~AllHaveAmounts(call.args)
        \/ Incompatible(ParsedLine(call.args[1]).unit, ParsedLine(call.args[2]).unit)) =>
        /\ Len(call.out) = 1
        /\ ShownAmount(call.out[1]) = None

\* -------------------------------------------------------------- validator
\* The validator's output lines before its final loop, for the call.
CarrierLines == ValidatorLines(call.args.data, call.args.cleaned_input)

\* The line at position i of the lines before the final loop is in the
\* returned list.
Kept(output_lines, i) ==
    \A j \in 1..(i - 1) : DedupKey(output_lines[j]) # DedupKey(output_lines[i])

InputIndexes == 0..(Len(call.args.cleaned_input) - 1)

\* C14: when the validator accepts an answer, every input index is
\* represented exactly once in the returned list: exactly one returned line
\* stands for it, the line of the accepted group that claims it or its own
\* verbatim line.
C14_ValidatorConservation ==
    (Returned("_validate_grouped_output") /\ call.out # None) =>
        \A idx \in InputIndexes :
            Cardinality({i \in DOMAIN CarrierLines.output_lines :
                            /\ idx \in CarrierLines.claimed[i]
                            /\ Kept(CarrierLines.output_lines, i)}) = 1

\* The answer has groups, every one of them is accepted, and the groups
\* cover every input index but one.
AllButOneCovered ==
    /\ call.args.data.groups_is_list
    /\ call.args.data.groups # <<>>
    /\ ~CarrierLines.returned_none
    /\ Len(ValidateGroups(call.args.data.groups, Len(call.args.data.groups),
                          Len(call.args.cleaned_input)).output_lines)
          = Len(call.args.data.groups)
    /\ Cardinality(InputIndexes \ CarrierLines.seen_indexes) = 1

\* C15: when every group of the answer is accepted and the groups cover
\* every input index but one, the returned list holds that input line
\* verbatim and has one line more than the answer has groups.
C15_OmittedIndexAppended ==
    (Returned("_validate_grouped_output") /\ AllButOneCovered) =>
        /\ \A idx \in InputIndexes \ CarrierLines.seen_indexes :
              Strip(call.args.cleaned_input[idx + 1]) \in Range(call.out)
        /\ Len(call.out) = Len(call.args.data.groups) + 1

\* ---------------------------------------------------------- consolidation
\* Stage A's output for the week's buy lines of the call.
StageAResult ==
    PreparedInput(aggregate_shop_items(call.args.days, call.args.recipes,
                                       call.args.pantry_items).buy_lines)

\* The names of the buy list, in order.
BuyNames(buy) == [i \in DOMAIN buy |-> buy[i].name]

\* Stage B is not skipped: there are lines, no more than the cap, and the
\* credential and the client are there.
AssistantCalled ==
    /\ StageAResult # <<>>
    /\ Len(StageAResult) <= call.args.env.max_ai_lines
    /\ call.args.env.has_api_key
    /\ call.args.env.client_imports

\* The assistant step fails: the call raises, or its response holds no
\* dict, or the validator returns no result.
AssistantFailed ==
    /\ AssistantCalled
    /\ \/ call.args.env.response.kind # "dict"
       \/ _validate_grouped_output(call.args.env.response.data, StageAResult) = None

\* C12: when the assistant step fails, the consolidated shopping still
\* returns a payload whose buy list is stage A's result, and the payload's
\* warning field is set.
C12_AssistantFailureWarns ==
    (Returned("build_consolidated_output") /\ AssistantFailed) =>
        /\ BuyNames(call.out.buy) = StageAResult
        /\ call.out.warning # None

\* One of the three skip cases of stage B.
AssistantSkipped ==
    /\ StageAResult # <<>>
    /\ \/ ~call.args.env.has_api_key
       \/ ~call.args.env.client_imports
       \/ Len(StageAResult) > call.args.env.max_ai_lines

\* C13: in each skip case of stage B (no credential, no client, more lines
\* than the cap) the buy list of the consolidated mode is stage A's output
\* for the week's buy lines.
C13_SkipKeepsStageA ==
    (Returned("build_consolidated_output") /\ AssistantSkipped) =>
        BuyNames(call.out.buy) = StageAResult

\* -------------------------------------------------------------- aggregator
\* The ingredient lines of the call that have a normalized key.
KeyedLines ==
    SelectSeq(PlannedIngredients(call.args.days, call.args.recipes, 1),
              LAMBDA ing : Strip(ing) # <<>> /\ normalize_ingredient(Strip(ing)) # <<>>)

\* The bucket the alias map of the call's pantry list gives a line.
BucketOf(ing) ==
    LET pantry_map == build_pantry_alias_map(call.args.pantry_items)
        norm == normalize_ingredient(Strip(ing))
    IN  IF norm \notin DictKeys(pantry_map) THEN "buy"
        ELSE IF DictGet(pantry_map, norm).uncertain THEN "pantry_uncertain"
        ELSE "pantry_used"

LinesIn(bucket) == SelectSeq(KeyedLines, LAMBDA ing : BucketOf(ing) = bucket)

RECURSIVE TotalCount(_, _)
TotalCount(list, i) == IF i = 0 THEN 0 ELSE TotalCount(list, i - 1) + list[i].count

\* C21: the aggregator counts every ingredient line that has a normalized
\* key in exactly one of the buckets buy, pantry-used and pantry-uncertain,
\* the bucket is the one the alias map gives the line's key, and the flat
\* buy-line list holds the buy-classified lines and no others.
C21_PantryPartition ==
    Returned("aggregate_shop_items") =>
        /\ TotalCount(call.out.buy, Len(call.out.buy)) = Len(LinesIn("buy"))
        /\ TotalCount(call.out.pantry_used, Len(call.out.pantry_used))
              = Len(LinesIn("pantry_used"))
        /\ TotalCount(call.out.pantry_uncertain_used, Len(call.out.pantry_uncertain_used))
              = Len(LinesIn("pantry_uncertain"))
        /\ call.out.buy_lines
              = [i \in DOMAIN LinesIn("buy") |-> clean_display_name(Strip(LinesIn("buy")[i]))]

C21_Witness ==
    /\ Returned("aggregate_shop_items")
    /\ LinesIn("buy") # <<>>
    /\ LinesIn("pantry_used") # <<>>
    /\ LinesIn("pantry_uncertain") # <<>>
    /\ Len(KeyedLines) < Len(PlannedIngredients(call.args.days, call.args.recipes, 1))

\* ------------------------------------------------------------ PlanBuilder
\* The non-excluded active recipes of the call in the randomized order, and
\* those of them with a preferred tag.
PickAvailable ==
    SelectSeq(call.args.all_recipes, LAMBDA r : r \notin call.args.existing_ids)
HasPreferredTag(r) == RecipeTags(r) \cap (Range(call.args.prefer_tags) \ {""}) # {}
PreferredCount ==
    Min(call.args.prefer_max, Len(SelectSeq(PickAvailable, HasPreferredTag)))

\* s without the values in `taken`, cut to at most n values.
FirstNotIn(s, taken, n) ==
    LET rest == SelectSeq(s, LAMBDA r : r \notin taken)
    IN  SubSeq(rest, 1, IF n < 0 THEN 0 ELSE Min(n, Len(rest)))

Segments(line) == StripAll(SplitOn(line, {";", ","}))

\* C23: a segment with a connective (und, &, +) and fewer than two
\* quantity-like tokens is kept as one line: a line that is one such segment
\* comes back as the only line of the result.
C23_SplitNeedsTwoQuantities ==
    (/\ Returned("_expand_compound_lines")
     /\ Len(call.args) = 1
     /\ Len(Segments(call.args[1])) = 1
     /\ AndSearch(Segments(call.args[1])[1])
     /\ Cardinality(QuantityHints(Segments(call.args[1])[1])) < 2) =>
        call.out = <<clean_display_name(call.args[1])>>

\* -------------------------------------------------- well-formed responses
\* A group that is not an object, has no string for merged_line or
\* canonical_name, or has no non-empty list as source_indexes.
MalformedGroup(group) ==
    \/ ~group.is_dict
    \/ group.merged_line = None
    \/ group.canonical_name = None
    \/ group.source_indexes = None

MalformedResponse(data) ==
    \/ ~data.groups_is_list
    \/ data.groups = <<>>
    \/ \E i \in DOMAIN data.groups : MalformedGroup(data.groups[i])

\* C24: the validator returns no result for every response that is not
\* well-formed: groups missing, not a list or empty, or some group malformed.
C24_MalformedResponseRejected ==
    (Returned("_validate_grouped_output") /\ MalformedResponse(call.args.data)) =>
        call.out = None

\* ------------------------------------------------------------ placeholders
\* The step is an accepted swap request that wrote a draft.
SwapPreviewStep == handled' # handled /\ last'.op = "swap" /\ last'.msg = "preview"

\* C25: the placeholder a swap request writes to a swapped day is a
\* placeholder token, differs from the placeholder of every other swapped day
\* of the request, and differs from what the day held in the base mapping.
C25_PlaceholderIsNew ==
    [][SwapPreviewStep =>
        LET base == SwapBaseDays
            draft == weekly_plan_drafts'[Len(weekly_plan_drafts')]
            proposed == draft.proposed_days
            swap_days == Range(draft.requested_swaps)
        IN  \A d \in swap_days :
                ~IsReal(proposed[d]) =>
                    /\ IsPlaceholder(proposed[d])
                    /\ \A e \in swap_days \ {d} : proposed[e] # proposed[d]
                    /\ d \in DOMAIN base => proposed[d] # base[d]]_vars

\* --------------------------------------------------------- category order
MatchesKeyword(line) ==
    \E rank \in DOMAIN _CATEGORY_KEYWORDS :
        \E w \in _CATEGORY_KEYWORDS[rank] : Contains(Lower(line), w)

\* The class of a line in the order protein 0, produce 1, starches 2,
\* dairy 3, seasoning and everything else 4.
CategoryClass(line) == IF MatchesKeyword(line) THEN _category_rank(line) ELSE 4

\* C26: stage A's output is ordered by category class and alphabetically
\* (case-insensitive) inside a class; a line without any category keyword is
\* in the last class, after every dairy line.
C26_CategoryOrder ==
    Returned("_pre_aggregate_lines") =>
        \A i, j \in DOMAIN call.out :
            i < j =>
                \/ CategoryClass(call.out[i]) < CategoryClass(call.out[j])
                \/ /\ CategoryClass(call.out[i]) = CategoryClass(call.out[j])
                   /\ ~StrLess(Lower(call.out[j]), Lower(call.out[i]))

\* ------------------------------------------------------ the week's records
\* C27: a draft exists only if a weekly plan exists, and a non-empty
\* avoid-set exists only if a draft exists.
C27_DraftNeedsPlan ==
    /\ HasDraft => HasPlan
    /\ swap_avoid # <<>> => HasDraft

C27_Witness ==
    /\ HasPlan
    /\ HasDraft
    /\ swap_avoid # <<>>
    /\ last.op = "swap"

\* A swap request that works on the draft of the running drafting session.
SwapOnDraftStep == SwapPreviewStep /\ UsesDraft

\* C28: whenever a draft exists, no recipe of its proposed days is in the
\* stored avoid-set; and a swap request on a draft only adds to the avoid-set.
C28_AvoidSetDisjointAndGrowing ==
    /\ [](HasDraft => RealIds(NewestDraft.proposed_days) \cap Range(swap_avoid) = {})
    /\ [][SwapOnDraftStep => Range(swap_avoid) \subseteq Range(swap_avoid')]_vars

C28_Witness ==
    /\ HasDraft
    /\ last.op = "swap"
    /\ last.branch = "draft"
    /\ Cardinality(Range(swap_avoid)) >= 2
    /\ RealIds(NewestDraft.proposed_days) # {}

\* ------------------------------------------------- requests at the same time
BothReturned ==
    swapping # <<>> /\ \A r \in DOMAIN swapping : swapping[r].at = "returned"

\* The ids a request added to the avoid-set it had read.
AddedIds(r) == swapping[r].avoid_ids \ swapping[r].read_avoid

\* C29: once two swap requests with interleaved store accesses have both
\* returned, the stored avoid-set holds every id either of them added, and no
\* recipe of the newest draft is in the stored avoid-set.
C29_InterleavedSwapsKeepAvoidSet ==
    BothReturned =>
        /\ \A r \in DOMAIN swapping : AddedIds(r) \subseteq Range(swap_avoid)
        /\ HasDraft => RealIds(NewestDraft.proposed_days) \cap Range(swap_avoid) = {}

\* ------------------------------------------------------- order of the lines
\* The lines in every order.
Orders(lines) ==
    {[i \in DOMAIN lines |-> lines[f[i]]] :
        f \in {g \in [DOMAIN lines -> DOMAIN lines] :
                  \A i, j \in DOMAIN lines : i # j => g[i] # g[j]}}

\* What the merged line of a one-key input shows: amount (or None) and unit.
MergedResult(lines) ==
    [amount |-> ShownAmount(_pre_aggregate_lines(lines)[1]),
     unit |-> ShownUnit(_pre_aggregate_lines(lines)[1])]

\* C30: for lines that share one merge key, stage A gives the same merged
\* result (amount present or not, total amount, unit) for every order of the
\* lines.
C30_MergeOrderIndependent ==
    (/\ Returned("_pre_aggregate_lines")
     /\ Len(call.args) >= 2
     /\ SameMergeKey(call.args)) =>
        \A other \in Orders(call.args) :
            MergedResult(other) = MergedResult(call.args)

====
